---- MODULE Spec2Model ----
(***************************************************************************)
(* HTTPFileSystem (src/unnamed/part_000): the directory cache, the backend *)
(* adapters, the HTML listing parsers, the gzip pipeline and the YAML      *)
(* config discovery.                                                       *)
(*                                                                         *)
(* Strings are sequences of one-character strings, so that replaceAll,     *)
(* endsWith, split and substring are computed as the code computes them.   *)
(***************************************************************************)
EXTENDS Naturals, Integers, Sequences, FiniteSets, Bags, TLC

\* ------------------------------------------------------------------ bounds

\* longest path handed to getDirectory
MaxPathLen == 3

\* adapter invocations (cache misses) in one behaviour
MaxFetches == 2

\* ------------------------------------------------------------------ strings

SL == "/"

DOT == "."

\* the characters paths are made of
PathChars == {SL, DOT, "a"}

\* all strings over cs of length lo..hi
Strings(cs, lo, hi) == UNION {[1..n -> cs] : n \in lo..hi}

\* String.prototype.startsWith
StartsWith(s, pre) ==
  /\ Len(s) >= Len(pre)
  /\ SubSeq(s, 1, Len(pre)) = pre

\* String.prototype.endsWith
EndsWith(s, suf) ==
  /\ Len(s) >= Len(suf)
  /\ SubSeq(s, Len(s) - Len(suf) + 1, Len(s)) = suf

\* String.prototype.replaceAll(pat, rep) with a string pattern: the matches are
\* found left to right and do not overlap; the replacement is not rescanned
RECURSIVE ReplaceAll(_, _, _)
ReplaceAll(s, pat, rep) ==
  IF Len(s) < Len(pat) THEN s
  ELSE IF StartsWith(s, pat)
       THEN rep \o ReplaceAll(SubSeq(s, Len(pat) + 1, Len(s)), pat, rep)
       ELSE <<Head(s)>> \o ReplaceAll(Tail(s), pat, rep)

\* s.split('/').filter(p => !!p): the non-empty pieces between separators
RECURSIVE SplitAcc(_, _)
SplitAcc(s, cur) ==
  IF s = <<>> THEN (IF cur = <<>> THEN <<>> ELSE <<cur>>)
  ELSE IF Head(s) = SL
       THEN (IF cur = <<>> THEN <<>> ELSE <<cur>>) \o SplitAcc(Tail(s), <<>>)
       ELSE SplitAcc(Tail(s), Append(cur, Head(s)))

SplitParts(s) == SplitAcc(s, <<>>)

\* String.prototype.lastIndexOf('/'), 1-based; 0 when absent (JS: -1)
RECURSIVE LastIndexOfSlash(_)
LastIndexOfSlash(s) ==
  IF s = <<>> THEN 0
  ELSE IF s[Len(s)] = SL THEN Len(s)
       ELSE LastIndexOfSlash(SubSeq(s, 1, Len(s) - 1))

\* ------------------------------------------------------------------ cache keys

\* getDirectory, before the cache lookup: one replaceAll pass, then the
\* trailing separator
LookupKey(scaryPath) ==
  LET s == ReplaceAll(scaryPath, <<SL, SL>>, <<SL>>)
  IN  IF EndsWith(s, <<SL>>) THEN s ELSE s \o <<SL>>

\* getDirectory, after the lookup: the path handed to the adapter and used as
\* the key of the cache write
WriteKey(scaryPath) == ReplaceAll(LookupKey(scaryPath), <<SL, DOT, SL>>, <<SL>>)

\* ------------------------------------------------------------------ sorting

\* UTF-16 code units of the characters used in names; of a token of several
\* characters, the code unit of its first character in lower case
CharCode(c) ==
  CASE c = "&#47;" -> 38
    [] c = "-1" -> 45
    [] c \in {DOT, ".simwrapper", ".yaml", ".yml", ".txt"} -> 46
    [] c = SL -> 47
    [] c = "a" -> 97
    [] c = "b" -> 98
    [] c = "dashboard" -> 100
    [] c = "notes" -> 110
    [] c = "p" -> 112
    [] c = "q" -> 113
    [] c \in {"simwrapper", "SimWrapper", "simwrapper-config"} -> 115
    [] c = "table" -> 116
    [] c = "viz" -> 118
    [] OTHER -> 122

\* naturalSort(a, b) < 0 on names without digits or upper case: one chunk
\* each, compared as strings
RECURSIVE NaturalBefore(_, _)
NaturalBefore(a, b) ==
  IF b = <<>> THEN FALSE
  ELSE IF a = <<>> THEN TRUE
  ELSE IF Head(a) = Head(b) THEN NaturalBefore(Tail(a), Tail(b))
  ELSE CharCode(Head(a)) < CharCode(Head(b))

\* place x before the first element that sorts after it (Array.sort is stable)
RECURSIVE SortInsert(_, _)
SortInsert(sorted, x) ==
  IF sorted = <<>> THEN <<x>>
  ELSE IF NaturalBefore(x, Head(sorted)) THEN <<x>> \o sorted
  ELSE <<Head(sorted)>> \o SortInsert(Tail(sorted), x)

\* names.sort((a, b) => naturalSort(a, b))
RECURSIVE NaturalSort(_)
NaturalSort(names) ==
  IF names = <<>> THEN <<>>
  ELSE SortInsert(NaturalSort(SubSeq(names, 1, Len(names) - 1)), names[Len(names)])

IsSorted(names) ==
  \A i \in 1..(Len(names) - 1) : ~NaturalBefore(names[i + 1], names[i])

\* ------------------------------------------------------------------ entries

\* DirectoryEntry: handles is the key set of the handle map; html holds the raw
\* body when the adapter keeps it
Entry(dirs, files, handles, html) ==
  [dirs |-> dirs, files |-> files, handles |-> handles, html |-> html]

EmptyEntry == Entry(<<>>, <<>>, {}, {})

\* a getDirectory that sorts the folders only
SortEntryDirsOnly(e) == [e EXCEPT !.dirs = NaturalSort(e.dirs)]

\* the two sorts of getDirectory
SortEntry(e) == [e EXCEPT !.dirs = NaturalSort(e.dirs), !.files = NaturalSort(e.files)]

\* name.substring(0, name.length - 1)
DropLast(name) == SubSeq(name, 1, Len(name) - 1)

\* the classification shared by the line parsers: a name ending in '/' is a
\* directory and loses that one character, any other name is a file
RECURSIVE Classify(_)
Classify(names) ==
  IF names = <<>> THEN [dirs |-> <<>>, files |-> <<>>]
  ELSE LET rest == Classify(Tail(names))
           name == Head(names)
       IN  IF EndsWith(name, <<SL>>)
           THEN [rest EXCEPT !.dirs = <<DropLast(name)>> \o rest.dirs]
           ELSE [rest EXCEPT !.files = <<name>> \o rest.files]

\* Array.prototype.map on sequences (filter is SelectSeq)
MapSeq(s, F(_)) == [i \in 1..Len(s) |-> F(s[i])]

\* ------------------------------------------------------------------ HTML listings

\* A response body: the dialect signatures found in it by indexOf, and its link
\* rows in document order. A row has the markup before its link (fmt: "li" is
\* '<li><a href="', "li_sp" is '<li> <a href="', "td" is '<td><a href="', "a" is
\* a bare '<a href="'), the href, the link text, and whether the line carries
\* the '[PARENTDIR]' icon.
SigSimpleWebServer == "SimpleWebServer"

SigSVN == "<ul>"

SigNpxServe == "<ul id=\"files\">"

SigApache24 == "<table>"

SigNGINX == "\n<a "

Body(sigs, rows) == [sigs |-> sigs, rows |-> rows]

Row(fmt, href, text) == [fmt |-> fmt, href |-> href, text |-> text, parent |-> FALSE]

Hrefs(rows) == MapSeq(rows, LAMBDA r : r.href)

ParentLink == <<DOT, DOT, SL>>

NotParentLink(name) == name # ParentLink

buildListFromSimpleWebServer(data) ==
  LET lines == SelectSeq(data.rows, LAMBDA r : r.fmt = "li")
      names == MapSeq(lines, LAMBDA r : r.text)
      c == Classify(names)
  IN  Entry(c.dirs, c.files, {}, {})

buildListFromNpxServe(data) ==
  LET lines == SelectSeq(data.rows, LAMBDA r : r.fmt = "li_sp")
      decoded == MapSeq(Hrefs(lines), LAMBDA n : ReplaceAll(n, <<"&#47;">>, <<SL>>))
      names == SelectSeq(decoded, LAMBDA n : n # <<SL>> /\ n # ParentLink)
      c == Classify(names)
      LastSegment(d) == SubSeq(d, LastIndexOfSlash(d) + 1, Len(d))
  IN  Entry(MapSeq(c.dirs, LastSegment), MapSeq(c.files, LastSegment), {}, {})

buildListFromSVN(data) ==
  LET lines == SelectSeq(data.rows, LAMBDA r : r.fmt = "li")
      names == SelectSeq(Hrefs(lines), NotParentLink)
      StripDotSlash(n) == IF StartsWith(n, <<DOT, SL>>) THEN SubSeq(n, 3, Len(n)) ELSE n
      c == Classify(MapSeq(names, StripDotSlash))
  IN  Entry(c.dirs, c.files, {}, {})

buildListFromApache24(data) ==
  LET lines == SelectSeq(data.rows, LAMBDA r : r.fmt = "td" /\ ~r.parent)
      c == Classify(SelectSeq(Hrefs(lines), NotParentLink))
  IN  Entry(c.dirs, c.files, {}, {})

buildListFromNGINX(data) ==
  LET c == Classify(SelectSeq(Hrefs(data.rows), NotParentLink))
  IN  Entry(c.dirs, c.files, {}, {})

\* the tests of buildListFromHtml, in their order
HtmlDialect(data) ==
  IF SigSimpleWebServer \in data.sigs THEN "SimpleWebServer"
  ELSE IF SigSVN \in data.sigs THEN "SVN"
  ELSE IF SigNpxServe \in data.sigs THEN "NpxServe"
  ELSE IF SigApache24 \in data.sigs THEN "Apache24"
  ELSE IF SigNGINX \in data.sigs THEN "NGINX"
  ELSE "none"

\* the parser of a dialect
ParseAs(dialect, data) ==
  CASE dialect = "SimpleWebServer" -> buildListFromSimpleWebServer(data)
    [] dialect = "SVN" -> buildListFromSVN(data)
    [] dialect = "NpxServe" -> buildListFromNpxServe(data)
    [] dialect = "Apache24" -> buildListFromApache24(data)
    [] dialect = "NGINX" -> buildListFromNGINX(data)
    [] OTHER -> EmptyEntry

buildListFromHtml(data) == ParseAs(HtmlDialect(data), data)

\* A body as text: its lines, joined by '\n'. A line is a link row, or a line
\* of markup that holds one of the signatures (mark), or other text.
TextLine(mark) == [mark |-> mark, link |-> FALSE, row |-> Row("none", <<>>, <<>>)]

LinkLine(row) == [mark |-> "link", link |-> TRUE, row |-> row]

\* the signatures data.indexOf finds in the text: the four words on their
\* lines, and '\n<a ' where a bare link starts a line that is not the first
SignaturesIn(lines) ==
  ({lines[i].mark : i \in 1..Len(lines)}
     \cap {SigSimpleWebServer, SigSVN, SigNpxServe, SigApache24})
    \cup {SigNGINX : i \in {k \in 2..Len(lines) : lines[k].link /\ lines[k].row.fmt = "a"}}

BodyOfLines(lines) ==
  Body(SignaturesIn(lines),
       MapSeq(SelectSeq(lines, LAMBDA l : l.link), LAMBDA l : l.row))

\* the DOM parse of the authenticated proxy: every anchor, whatever its row
parseHtmlDirectoryListing(htmlText) ==
  LET links == SelectSeq(htmlText.rows,
                 LAMBDA r : /\ r.href # ParentLink
                            /\ r.text # <<DOT, DOT>>
                            /\ r.href # <<>>
                            /\ r.text # <<>>)
      isDir(r) == EndsWith(r.href, <<SL>>) /\ EndsWith(r.text, <<SL>>)
      isFile(r) == ~EndsWith(r.href, <<SL>>) /\ ~EndsWith(r.text, <<SL>>)
  IN  [dirs |-> MapSeq(SelectSeq(links, isDir), LAMBDA r : DropLast(r.href)),
       files |-> Hrefs(SelectSeq(links, isFile))]

\* ------------------------------------------------------------------ errors

\* a thrown value: an Error (or TypeError, SyntaxError) with its message, the
\* message's argument when it quotes one, or a Response with its status text
Thrown(kind, text, arg) == [kind |-> kind, text |-> text, arg |-> arg]

NoError == Thrown("none", "", <<>>)

Ok(entry) == [ok |-> TRUE, entry |-> entry, error |-> NoError]

Fail(e) == [ok |-> FALSE, entry |-> EmptyEntry, error |-> e]

\* '' + e: an Error prints as "<name>: <message>", a Response as
\* "[object Response]"
ToStringOf(e) ==
  IF e.kind = "Response"
  THEN [head |-> "[object Response]", text |-> "", arg |-> <<>>]
  ELSE [head |-> e.kind, text |-> e.text, arg |-> e.arg]

\* ------------------------------------------------------------------ roots

\* FileSystemConfig of each StorageRoot, and whether a store was handed to the
\* constructor. Every backend kind is present; roots 1 and 2 also set a flag of
\* lower precedence.
Roots == 1..4

Config(r) ==
  CASE r = 1 -> [slug |-> "local", handle |-> TRUE, isGithub |-> FALSE,
                 needPassword |-> TRUE, store |-> TRUE]
    [] r = 2 -> [slug |-> "gh", handle |-> FALSE, isGithub |-> TRUE,
                 needPassword |-> TRUE, store |-> FALSE]
    [] r = 3 -> [slug |-> "s3", handle |-> FALSE, isGithub |-> FALSE,
                 needPassword |-> TRUE, store |-> FALSE]
    [] OTHER -> [slug |-> "web", handle |-> FALSE, isGithub |-> FALSE,
                 needPassword |-> FALSE, store |-> FALSE]

Slugs == {Config(r).slug : r \in Roots}

\* ------------------------------------------------------------------ local handle

\* the folder behind the handle: children of each directory in the order the
\* handle enumerates them
HandleChildren(dir) ==
  CASE dir = <<>> ->
         <<[name |-> <<"a">>, kind |-> "directory"], [name |-> <<"b">>, kind |-> "file"]>>
    [] dir = <<(<<"a">>)>> ->
         <<[name |-> <<"b">>, kind |-> "file"], [name |-> <<"a">>, kind |-> "file"]>>
    [] OTHER -> <<>>

\* getChromePermission: status is queryPermission's answer, decision the
\* user's answer to the prompt the store raises
getChromePermission(handle, status, store, decision) ==
  IF ~handle THEN TRUE
  ELSE IF status # "granted"
       THEN (IF ~store THEN TRUE ELSE decision)
       ELSE TRUE

\* parts.indexOf('..'), 1-based; 0 when absent
RECURSIVE IndexOfDotDot(_)
IndexOfDotDot(parts) ==
  IF parts = <<>> THEN 0
  ELSE IF Head(parts) = <<DOT, DOT>> THEN 1
  ELSE LET i == IndexOfDotDot(Tail(parts)) IN IF i = 0 THEN 0 ELSE i + 1

\* a removal that is not repeated
eatDotsOnce(parts) ==
  LET dotdot == IndexOfDotDot(parts)
  IN  IF dotdot <= 1 THEN parts
      ELSE SubSeq(parts, 1, dotdot - 2) \o SubSeq(parts, dotdot + 1, Len(parts))

\* function eatDots(parts): the entries at dotdot - 1 and dotdot are filtered
\* out, and the rest is reduced again
RECURSIVE eatDots(_)
eatDots(parts) ==
  LET dotdot == IndexOfDotDot(parts)
  IN  IF dotdot <= 1 THEN parts
      ELSE eatDots(SubSeq(parts, 1, dotdot - 2) \o SubSeq(parts, dotdot + 1, Len(parts)))

\* the top-down walk: the child with the wanted name becomes the current
\* handle, whatever its kind; a file handle cannot be iterated
RECURSIVE WalkFolders(_, _)
WalkFolders(node, parts) ==
  IF parts = <<>> THEN [ok |-> TRUE, node |-> node, error |-> NoError]
  ELSE IF node.kind # "directory"
  THEN [ok |-> FALSE, node |-> node,
        error |-> Thrown("TypeError", "currentDir is not async iterable", <<>>)]
  ELSE LET subfolder == Head(parts)
           kids == SelectSeq(HandleChildren(node.dir), LAMBDA k : k.name = subfolder)
       IN  IF kids = <<>>
           THEN [ok |-> FALSE, node |-> node,
                 error |-> Thrown("Error", "Could not find folder", subfolder)]
           ELSE WalkFolders([dir |-> Append(node.dir, subfolder), kind |-> kids[1].kind],
                            Tail(parts))

getDirectoryFromHandle(stillScaryPath, cfg, env) ==
  IF ~cfg.handle THEN Ok(EmptyEntry)
  ELSE IF ~getChromePermission(cfg.handle, env.status, cfg.store, env.decision)
  THEN Ok(EmptyEntry)
  ELSE LET cleanDirParts == eatDots(SplitParts(stillScaryPath))
           walk == WalkFolders([dir |-> <<>>, kind |-> "directory"], cleanDirParts)
       IN  IF ~walk.ok THEN Fail(walk.error)
           ELSE IF walk.node.kind # "directory"
           THEN Fail(Thrown("TypeError", "currentDir.values is not a function", <<>>))
           ELSE LET kids == HandleChildren(walk.node.dir)
                IN  Ok(Entry(MapSeq(SelectSeq(kids, LAMBDA k : k.kind # "file"),
                                    LAMBDA k : k.name),
                             MapSeq(SelectSeq(kids, LAMBDA k : k.kind = "file"),
                                    LAMBDA k : k.name),
                             {kids[i].name : i \in 1..Len(kids)},
                             {}))

\* ------------------------------------------------------------------ GitHub

\* scaryPath.replace(/^0-9a-zA-Z_\-\/:+/i, ''): the pattern has no character
\* class; it matches the literal text 0-9a-zA-Z_-/ followed by colons, at the
\* start, ignoring case
ScaryLiteral == <<"0", "-", "9", "a", "-", "z", "A", "-", "Z", "_", "-", SL>>

LowerCase(c) ==
  IF c = "A" THEN "a"
  ELSE IF c = "Z" THEN "z"
  ELSE IF c = "SimWrapper" THEN "simwrapper"
  ELSE c

RECURSIVE DropColons(_)
DropColons(s) == IF s # <<>> /\ Head(s) = ":" THEN DropColons(Tail(s)) ELSE s

StripScaryPrefix(scaryPath) ==
  LET n == Len(ScaryLiteral)
  IN  IF /\ Len(scaryPath) > n
         /\ MapSeq(SubSeq(scaryPath, 1, n), LowerCase) = MapSeq(ScaryLiteral, LowerCase)
         /\ scaryPath[n + 1] = ":"
      THEN DropColons(SubSeq(scaryPath, n + 1, Len(scaryPath)))
      ELSE scaryPath

\* what the contents API answers: a JSON array of entries, a JSON object (an
\* error document), or a body that is not JSON
GithubReplies ==
  { [kind |-> "array",
     json |-> <<[name |-> <<"b">>, type |-> "file"], [name |-> <<"a">>, type |-> "dir"],
                [name |-> <<"a">>, type |-> "file"]>>],
    [kind |-> "object", json |-> <<>>],
    [kind |-> "invalid", json |-> <<>>] }

_getDirectoryFromGitHub(scaryPath, reply) ==
  LET path0 == ReplaceAll(StripScaryPrefix(scaryPath), <<SL, SL>>, <<SL>>)
      path == IF StartsWith(path0, <<SL>>) THEN Tail(path0) ELSE path0
      bits == SplitParts(path)
  IN  IF Len(bits) < 2 THEN Ok(EmptyEntry)
      ELSE IF reply.kind = "invalid"
      THEN Fail(Thrown("SyntaxError", "Unexpected token in JSON", <<>>))
      ELSE IF reply.kind # "array"
      THEN Fail(Thrown("TypeError", "json.forEach is not a function", <<>>))
      ELSE Ok(Entry(MapSeq(SelectSeq(reply.json, LAMBDA e : e.type = "dir"),
                           LAMBDA e : e.name),
                    MapSeq(SelectSeq(reply.json, LAMBDA e : e.type = "file"),
                           LAMBDA e : e.name),
                    {}, {}))

\* ------------------------------------------------------------------ HTTP

\* an nginx page: the parent link, a file and a folder
BodyNginx ==
  Body({SigNGINX},
       <<Row("a", ParentLink, ParentLink), Row("a", <<"b">>, <<"b">>),
         Row("a", <<"a", SL>>, <<"a", SL>>)>>)

\* an Apache 2.4 page whose hrefs are paths: a file below a folder, a folder
\* written with two separators, and a plain file
BodyApache ==
  Body({SigApache24},
       <<Row("td", <<"b", SL, "a">>, <<"a">>), Row("td", <<"b", SL, SL>>, <<"b", SL>>),
         Row("td", <<"a">>, <<"a">>)>>)

NoBody == Body({}, <<>>)

\* what fetch answers: a non-2xx response, or a page
HttpReplies ==
  { [ok |-> FALSE, statusText |-> "Not Found", body |-> NoBody],
    [ok |-> TRUE, statusText |-> "OK", body |-> BodyNginx],
    [ok |-> TRUE, statusText |-> "OK", body |-> BodyApache] }

\* the parent frame's answer to 'requestAuthToken'
AuthMessages ==
  { [accessToken |-> TRUE, username |-> TRUE],
    [accessToken |-> TRUE, username |-> FALSE] }

_getDirectoryFromAWS(scaryPath, message, reply) ==
  IF ~(message.accessToken /\ message.username)
  THEN Fail(Thrown("Error", "No token or username received from parent.", <<>>))
  ELSE IF ~reply.ok
  THEN Fail(Thrown("Error", "Failed to fetch AWS directory: ", <<reply.statusText>>))
  ELSE LET parsed == parseHtmlDirectoryListing(reply.body)
       IN  Ok(Entry(parsed.dirs, parsed.files, {}, {reply.body}))

\* _getFileFetchResponse without needsAuth: a non-2xx response is thrown as it is
getDirectoryFromURL(stillScaryPath, reply) ==
  IF ~reply.ok THEN Fail(Thrown("Response", reply.statusText, <<>>))
  ELSE Ok(buildListFromHtml(reply.body))

\* ------------------------------------------------------------------ getDirectory

\* the if / else-if chain of getDirectory
DirectoryAdapter(cfg) ==
  IF cfg.handle THEN "local-handle"
  ELSE IF cfg.isGithub THEN "github"
  ELSE IF cfg.needPassword THEN "authenticated-proxy"
  ELSE "generic-http"

\* what the outside world answers during one adapter call
Env(status, decision, message, reply, github) ==
  [status |-> status, decision |-> decision, message |-> message, reply |-> reply,
   github |-> github]

QuietReply == CHOOSE x \in HttpReplies : ~x.ok

QuietMessage == CHOOSE m \in AuthMessages : m.username

QuietGithub == CHOOSE g \in GithubReplies : g.kind = "invalid"

\* the answers that matter to each adapter
Envs(cfg) ==
  LET a == DirectoryAdapter(cfg)
  IN  IF a = "local-handle"
      THEN {Env("granted", TRUE, QuietMessage, QuietReply, QuietGithub)}
           \cup {Env("prompt", d, QuietMessage, QuietReply, QuietGithub) : d \in BOOLEAN}
      ELSE IF a = "github"
      THEN {Env("granted", TRUE, QuietMessage, QuietReply, g) : g \in GithubReplies}
      ELSE IF a = "authenticated-proxy"
      THEN {Env("granted", TRUE, m, x, QuietGithub) : m \in AuthMessages, x \in HttpReplies}
      ELSE {Env("granted", TRUE, QuietMessage, x, QuietGithub) : x \in HttpReplies}

\* the adapter call inside the try block
CallAdapter(cfg, stillScaryPath, env) ==
  IF cfg.handle THEN getDirectoryFromHandle(stillScaryPath, cfg, env)
  ELSE IF cfg.isGithub THEN _getDirectoryFromGitHub(stillScaryPath, env.github)
  ELSE IF cfg.needPassword THEN _getDirectoryFromAWS(stillScaryPath, env.message, env.reply)
  ELSE getDirectoryFromURL(stillScaryPath, env.reply)

\* catch (e) { throw Error('' + e) }
getDirectoryCatch(scaryPath, e) == [kind |-> "Error", message |-> ToStringOf(e)]

\* ------------------------------------------------------------------ state

VARIABLES
  CACHE,     \* CACHE[slug][dir]: the cached listings
  inflight,  \* the getDirectory calls waiting for their adapter (a bag)
  fetches,   \* adapter invocations so far
  ev,        \* what the last step did
  listed,    \* per slug: the cache keys written since the last clearCache
  project,   \* the FileSystemConfig of the root whose files are read
  fev,       \* what the last file read did
  gz,        \* the buffer handed to gUnzip, and what came back
  tree,      \* the folders of the web server searched for YAML configs
  yev,       \* what the last findAllYamlConfigs did
  url,       \* the path handed to cleanURL, and the URL that came back
  auth,      \* the token exchanges with the parent frame
  gate,      \* the local-handle call under way, and its permission check
  dots,      \* the segments handed to eatDots, and what came back
  page,      \* the body handed to buildListFromHtml, and what came back
  xyt        \* the XYT worker: its layer buffer and the messages it has posted

vars ==
  <<CACHE, inflight, fetches, ev, listed, project, fev, gz, tree, yev, url, auth, gate,
    dots, page, xyt>>

\* the variables of the listing steps, of the file reads, of the gzip pipeline
\* and of the config discovery
listVars == <<inflight, fetches, ev, listed>>

fileVars == <<project, fev>>

yamlVars == <<tree, yev>>

\* the variables of the helpers that are stepped on their own
callVars == <<url, auth, gate, dots, page, xyt>>

\* the variables of the listing calls, the file reads, the gzip pipeline, the
\* config discovery and the XYT worker, without and with the cache
restVars == <<listVars, fileVars, gz, yamlVars, xyt>>

mainVars == <<CACHE, restVars>>

\* the shortest path the GitHub adapter sends a request for: owner/repo
RepoPath == <<"a", SL, "a">>

\* the paths handed to getDirectory: every absolute path up to the bound, and
\* the repository path
Paths == {p \in Strings(PathChars, 1, MaxPathLen) : Head(p) = SL} \cup {RepoPath}

EmptyMap == [k \in {} |-> EmptyEntry]

Put(map, key, value) ==
  [k \in DOMAIN map \cup {key} |-> IF k = key THEN value ELSE map[k]]

Event(op, root, path, entry, error, cause) ==
  [op |-> op, root |-> root, path |-> path, entry |-> entry, error |-> error,
   cause |-> cause, after |-> {}, dropped |-> 0]

NoThrow == [kind |-> "none", message |-> ToStringOf(NoError)]

\* const cachedEntry = CACHE[this.urlId][stillScaryPath]
CachedEntry(cache, slug, scaryPath) ==
  LET key == LookupKey(scaryPath)
  IN  IF key \in DOMAIN cache[slug] THEN {cache[slug][key]} ELSE {}

\* a cache that skips listings without names
CacheWriteNonEmptyOnly(cache, slug, scaryPath, result) ==
  IF result.ok /\ (result.entry.dirs # <<>> \/ result.entry.files # <<>>)
  THEN [cache EXCEPT ![slug] = Put(@, WriteKey(scaryPath), SortEntry(result.entry))]
  ELSE cache

\* a cache that reserves the key before the adapter has answered
CacheWriteBeforeAwait(cache, slug, scaryPath, result) ==
  [cache EXCEPT ![slug] =
     Put(@, WriteKey(scaryPath), IF result.ok THEN SortEntry(result.entry) ELSE EmptyEntry)]

\* CACHE[this.urlId][stillScaryPath] = dirEntry, reached only when the adapter
\* has returned
CacheWrite(cache, slug, scaryPath, result) ==
  IF result.ok
  THEN [cache EXCEPT ![slug] = Put(@, WriteKey(scaryPath), SortEntry(result.entry))]
  ELSE cache

\* a clear that resets the whole CACHE object
ClearedCacheAll(cache, slug) == [s \in DOMAIN cache |-> EmptyMap]

\* CACHE[this.urlId] = {}
ClearedCache(cache, slug) == [cache EXCEPT ![slug] = EmptyMap]

\* getDirectory as one awaited call, as findAllYamlConfigs and the local file
\* read make it: the cached entry on a hit; on a miss the adapter's listing,
\* sorted and cached, or the error of the catch
\* (a value that is read more than once is bound over a singleton set, here and
\* below, so that it is computed once)
getDirectoryMiss(cache, cfg, scaryPath, result) ==
  [cache |-> CacheWrite(cache, cfg.slug, scaryPath, result),
   ok |-> result.ok,
   entry |-> IF result.ok THEN SortEntry(result.entry) ELSE EmptyEntry,
   error |-> IF result.ok THEN NoThrow ELSE getDirectoryCatch(scaryPath, result.error),
   fetched |-> TRUE]

getDirectory(cache, cfg, scaryPath, env) ==
  IF CachedEntry(cache, cfg.slug, scaryPath) # {}
  THEN [cache |-> cache, ok |-> TRUE,
        entry |-> CHOOSE e \in CachedEntry(cache, cfg.slug, scaryPath) : TRUE,
        error |-> NoThrow, fetched |-> FALSE]
  ELSE CHOOSE listing \in
         {getDirectoryMiss(cache, cfg, scaryPath, result) :
            result \in {CallAdapter(cfg, WriteKey(scaryPath), env)}} : TRUE

\* ------------------------------------------------------------------ gzip

\* the magic number 0x1f 0x8b
GzipMagic == <<31, 139>>

\* the end of a gzip member (its checksum and length), as one byte that no
\* payload holds
GzipEnd == <<0>>

\* the bytes payloads are made of: the two magic bytes and the digit "0"
PayloadBytes == {31, 139, 48}

\* what a gzipping server or proxy makes of a buffer
Gzip(buffer) == GzipMagic \o buffer \o GzipEnd

\* pako.inflate: the content of a well-formed gzip member; it throws on
\* anything else
pakoInflate(buffer) ==
  IF /\ Len(buffer) >= Len(GzipMagic) + Len(GzipEnd)
     /\ StartsWith(buffer, GzipMagic)
     /\ EndsWith(buffer, GzipEnd)
  THEN [ok |-> TRUE, out |-> SubSeq(buffer, Len(GzipMagic) + 1, Len(buffer) - Len(GzipEnd))]
  ELSE [ok |-> FALSE, out |-> <<>>]

\* buffer.slice(0, 2)
Header(buffer) == SubSeq(buffer, 1, IF Len(buffer) < 2 THEN Len(buffer) ELSE 2)

\* a gunzip that inflates once and returns what it got
gUnzipOnce(buffer) ==
  IF Len(Header(buffer)) = 2 /\ Header(buffer)[1] = 31 /\ Header(buffer)[2] = 139
  THEN [ok |-> pakoInflate(buffer).ok, out |-> pakoInflate(buffer).out, steps |-> 1]
  ELSE [ok |-> TRUE, out |-> buffer, steps |-> 0]

\* gUnzip: inflate while the buffer starts with the magic number; steps counts
\* the calls of pako.inflate
RECURSIVE gUnzip(_)
gUnzip(buffer) ==
  IF Len(Header(buffer)) = 2 /\ Header(buffer)[1] = 31 /\ Header(buffer)[2] = 139
  THEN LET inflated == pakoInflate(buffer)
       IN  IF ~inflated.ok THEN [ok |-> FALSE, out |-> <<>>, steps |-> 1]
           ELSE [gUnzip(inflated.out) EXCEPT !.steps = @ + 1]
  ELSE [ok |-> TRUE, out |-> buffer, steps |-> 0]

\* new TextDecoder().decode(bytes), as code points: a byte that is no valid
\* UTF-8 sequence becomes U+FFFD
TextDecode(bytes) == MapSeq(bytes, LAMBDA b : IF b >= 128 THEN 65533 ELSE b)

\* the UTF-8 bytes of a string, as a Blob stores it
RECURSIVE TextEncode(_)
TextEncode(text) ==
  IF text = <<>> THEN <<>>
  ELSE (IF Head(text) = 65533 THEN <<239, 191, 189>> ELSE <<Head(text)>>)
       \o TextEncode(Tail(text))

\* whether JSON.parse accepts the text: of the texts over the payload bytes only
\* "0" is a JSON document
JsonParses(text) == text = <<48>>

\* ------------------------------------------------------------------ file reads

\* s.split('/'): the pieces between separators, the empty ones too
RECURSIVE SplitKeep(_, _)
SplitKeep(s, cur) ==
  IF s = <<>> THEN <<cur>>
  ELSE IF Head(s) = SL THEN <<cur>> \o SplitKeep(Tail(s), <<>>)
  ELSE SplitKeep(Tail(s), Append(cur, Head(s)))

Split(s) == SplitKeep(s, <<>>)

\* Array.prototype.join('/')
RECURSIVE Join(_)
Join(segs) ==
  IF segs = <<>> THEN <<>>
  ELSE IF Len(segs) = 1 THEN segs[1]
  ELSE segs[1] \o <<SL>> \o Join(Tail(segs))

\* the path state of the URL parser: a `.` segment is dropped, a `..` segment
\* removes the segment before it, and either one leaves an empty segment when
\* it is the last
RECURSIVE UrlSegments(_, _)
UrlSegments(segs, out) ==
  IF segs = <<>> THEN out
  ELSE LET seg == Head(segs)
           closing == IF Len(segs) = 1 THEN <<(<<>>)>> ELSE <<>>
       IN  IF seg = <<DOT, DOT>>
           THEN UrlSegments(Tail(segs), (IF out = <<>> THEN out ELSE DropLast(out)) \o closing)
           ELSE IF seg = <<DOT>>
           THEN UrlSegments(Tail(segs), out \o closing)
           ELSE UrlSegments(Tail(segs), Append(out, seg))

\* new URL(`http://local/${path}`).href.substring(13)
LocalUrlPath(path) == Join(UrlSegments(Split(path), <<>>))

\* the extensions of BINARIES
BINARIES ==
  {"avro", "dbf", "gpkg", "gz", "h5", "jpg", "jpeg", "omx", "png", "shp", "shx", "sqlite",
   "zip", "zst"}

\* BINARIES.test(scaryPath.toLocaleLowerCase())
IsBinary(scaryPath) ==
  \E ext \in BINARIES : EndsWith(MapSeq(scaryPath, LowerCase), <<DOT, ext>>)

\* the bytes of the text "undefined"
UndefinedText == <<117, 110, 100, 101, 102, 105, 110, 101, 100>>

NoFileError == [kind |-> "none", text |-> ""]

\* what an adapter hands back: a response (a File, a fetch Response, the object
\* the GitHub adapter builds, or null) with its content, or a thrown value
FileResponse(adapter, kind, content, isText, cache) ==
  [adapter |-> adapter, ok |-> TRUE, thrown |-> NoFileError, kind |-> kind,
   content |-> content, isText |-> isText, cache |-> cache]

FileFailure(adapter, kind, text, cache) ==
  [adapter |-> adapter, ok |-> FALSE, thrown |-> [kind |-> kind, text |-> text],
   kind |-> "none", content |-> <<>>, isText |-> FALSE, cache |-> cache]

_getFileFetchResponse(cache, cfg, scaryPath, env) ==
  IF cfg.needPassword
  THEN IF ~(env.message.accessToken /\ env.message.username)
       THEN FileFailure("authenticated-proxy", "Error",
                        "No token or username received from parent.", cache)
       ELSE IF ~env.reply.ok
       THEN FileFailure("authenticated-proxy", "Response", env.reply.statusText, cache)
       ELSE FileResponse("authenticated-proxy", "Response", env.payload, FALSE, cache)
  ELSE IF ~env.reply.ok
       THEN FileFailure("generic-http", "Response", env.reply.statusText, cache)
       ELSE FileResponse("generic-http", "Response", env.payload, FALSE, cache)

\* the file handle of filename among the contents of its folder
FileFromHandles(dirContents, filename, env) ==
  IF ~dirContents.ok
  THEN FileFailure("local-handle", dirContents.error.kind,
                   dirContents.error.message.text, dirContents.cache)
  ELSE IF filename \notin dirContents.entry.handles
  THEN FileFailure("local-handle", "Error", "File missing", dirContents.cache)
  ELSE IF \E i \in 1..Len(dirContents.entry.dirs) : dirContents.entry.dirs[i] = filename
  THEN FileFailure("local-handle", "TypeError", "fileHandle.getFile is not a function",
                   dirContents.cache)
  ELSE FileResponse("local-handle", "File", env.payload, FALSE, dirContents.cache)

_getFileFromChromeFileSystem(cache, cfg, scaryPath, env) ==
  CHOOSE response \in
    {FileFromHandles(dirContents, SubSeq(path, LastIndexOfSlash(path) + 1, Len(path)), env) :
       <<path, dirContents>> \in
         {<<p, getDirectory(cache, cfg, SubSeq(p, 1, LastIndexOfSlash(p) - 1), env)>> :
            p \in {LocalUrlPath(ReplaceAll(StripScaryPrefix(scaryPath),
                                           <<SL, SL>>, <<SL>>))}}} : TRUE

_getFileFromGitHub(cache, scaryPath, env) ==
  LET path0 == ReplaceAll(StripScaryPrefix(scaryPath), <<SL, SL>>, <<SL>>)
      path == IF StartsWith(path0, <<SL>>) THEN Tail(path0) ELSE path0
      bits == SplitParts(path)
  IN  IF Len(bits) < 2 THEN FileResponse("github", "null", <<>>, FALSE, cache)
      ELSE IF env.ghfile = "invalid"
      THEN FileFailure("github", "SyntaxError", "Unexpected token in JSON", cache)
      ELSE IF env.ghfile = "notfound"
      THEN FileResponse("github", "GitHubUndefined", UndefinedText, FALSE, cache)
      ELSE IF IsBinary(scaryPath)
      THEN FileResponse("github", "GitHub", env.payload, FALSE, cache)
      ELSE FileResponse("github", "GitHub", TextDecode(env.payload), TRUE, cache)

_getFileResponse(cache, cfg, scaryPath, env) ==
  IF cfg.handle THEN _getFileFromChromeFileSystem(cache, cfg, scaryPath, env)
  ELSE IF cfg.isGithub THEN _getFileFromGitHub(cache, scaryPath, env)
  ELSE _getFileFetchResponse(cache, cfg, scaryPath, env)

\* response.blob() and then its bytes: a string part is stored as UTF-8
BlobOf(response) ==
  IF response.isText THEN TextEncode(response.content) ELSE response.content

\* what a read returns or throws
FileReturn(response, form, data) ==
  [adapter |-> response.adapter, cache |-> response.cache, ok |-> TRUE,
   thrown |-> NoFileError, form |-> form, data |-> data]

FileThrow(response, kind, text) ==
  [adapter |-> response.adapter, cache |-> response.cache, ok |-> FALSE,
   thrown |-> [kind |-> kind, text |-> text], form |-> "none", data |-> <<>>]

NullResponse == "Cannot read properties of null"

\* response.text()
TextOf(response) ==
  IF ~response.ok THEN FileThrow(response, response.thrown.kind, response.thrown.text)
  ELSE IF response.kind = "null" THEN FileThrow(response, "TypeError", NullResponse)
  ELSE IF response.kind = "GitHubUndefined" THEN FileReturn(response, "undefined", <<>>)
  ELSE IF response.kind = "GitHub"
  THEN FileReturn(response, IF response.isText THEN "text" ELSE "bytes", response.content)
  ELSE FileReturn(response, "text", TextDecode(response.content))

getFileText(cache, cfg, scaryPath, env) ==
  CHOOSE out \in {TextOf(response) :
                    response \in {_getFileResponse(cache, cfg, scaryPath, env)}} : TRUE

\* JSON.parse of the decoded bytes that gUnzip leaves
JsonOfUnzipped(response, unzipped) ==
  IF ~unzipped.ok THEN FileThrow(response, "string", "incorrect header check")
  ELSE IF ~JsonParses(TextDecode(unzipped.out))
  THEN FileThrow(response, "SyntaxError", "Unexpected token in JSON")
  ELSE FileReturn(response, "json", TextDecode(unzipped.out))

\* response.blob(), blob.arrayBuffer(), gUnzip, decode, parse
JsonOf(response) ==
  IF ~response.ok THEN FileThrow(response, response.thrown.kind, response.thrown.text)
  ELSE IF response.kind = "null" THEN FileThrow(response, "TypeError", NullResponse)
  ELSE CHOOSE out \in {JsonOfUnzipped(response, unzipped) :
                         unzipped \in {gUnzip(BlobOf(response))}} : TRUE

getFileJson(cache, cfg, scaryPath, env) ==
  CHOOSE out \in {JsonOf(response) :
                    response \in {_getFileResponse(cache, cfg, scaryPath, env)}} : TRUE

\* response.blob()
BlobResult(response) ==
  IF ~response.ok THEN FileThrow(response, response.thrown.kind, response.thrown.text)
  ELSE IF response.kind = "null" THEN FileThrow(response, "TypeError", NullResponse)
  ELSE FileReturn(response, "blob", BlobOf(response))

getFileBlob(cache, cfg, scaryPath, env) ==
  CHOOSE out \in {BlobResult(response) :
                    response \in {_getFileResponse(cache, cfg, scaryPath, env)}} : TRUE

\* response.body
StreamOf(response) ==
  IF ~response.ok THEN FileThrow(response, response.thrown.kind, response.thrown.text)
  ELSE FileReturn(response, "stream", response.content)

getFileStream(cache, cfg, scaryPath, env) ==
  CHOOSE out \in
    {StreamOf(response) :
       response \in {IF cfg.handle
                     THEN _getFileFromChromeFileSystem(cache, cfg, scaryPath, env)
                     ELSE _getFileFetchResponse(cache, cfg, scaryPath, env)}} : TRUE

\* ------------------------------------------------------------------ YAML configs

\* Names here are sequences of tokens: a folder name is one token, a file name
\* is a stem, an optional suffix and an extension.
YAML_FOLDERS == {<<"simwrapper">>, <<".simwrapper">>}

YamlExtensions == {".yml", ".yaml"}

\* micromatch of '<stem>*.y?(a)ml' (star) and '<stem>.y?(a)ml' (no star)
Glob(stems, star, name) ==
  /\ Len(name) >= 2
  /\ name[1] \in stems
  /\ name[Len(name)] \in YamlExtensions
  /\ star \/ Len(name) = 2

dashboard(name) == Glob({"dashboard"}, TRUE, name)

topsheet(name) == Glob({"topsheet", "table"}, TRUE, name)

viz(name) == Glob({"viz"}, TRUE, name)

config(name) == Glob({"simwrapper-config"}, FALSE, name)

\* the files and folders of the web server behind the generic-http root
DashboardFile == <<"dashboard", "-1", ".yaml">>

VizFile == <<"viz", ".yml">>

TableFile == <<"table", ".yaml">>

ConfigFile == <<"simwrapper-config", ".yml">>

NotesFile == <<"notes", ".txt">>

Folder(dirs, files) == [dirs |-> dirs, files |-> files]

Tree(inTarget, atParent) ==
  LET root == <<SL>>
      sw == <<SL, "simwrapper", SL>>
      p == <<SL, "p", SL>>
      q == <<SL, "p", SL, "q", SL>>
      psw == <<SL, "p", SL, "SimWrapper", SL>>
      pdot == <<SL, "p", SL, ".simwrapper", SL>>
      keys == {root, sw, p, q} \cup (IF atParent THEN {psw, pdot} ELSE {})
  IN  [k \in keys |->
         IF k = root THEN Folder(<<(<<"simwrapper">>), <<"p">>>>, <<>>)
         ELSE IF k = sw THEN Folder(<<>>, <<VizFile, DashboardFile>>)
         ELSE IF k = p
         THEN Folder(<<(<<"q">>)>> \o (IF atParent
                                       THEN <<(<<"SimWrapper">>), <<".simwrapper">>>>
                                       ELSE <<>>),
                     <<NotesFile>>)
         ELSE IF k = q
         THEN Folder(<<>>, IF inTarget THEN <<NotesFile, DashboardFile>> ELSE <<NotesFile>>)
         ELSE IF k = psw THEN Folder(<<>>, <<DashboardFile, ConfigFile>>)
         ELSE Folder(<<>>, <<VizFile, TableFile>>)]

Trees == {Tree(t, a) : t \in BOOLEAN, a \in BOOLEAN}

\* the index page the server sends for a folder, nginx style
NginxPage(folder) ==
  Body({SigNGINX},
       <<Row("a", ParentLink, ParentLink)>>
       \o MapSeq(folder.dirs, LAMBDA d : Row("a", d \o <<SL>>, d \o <<SL>>))
       \o MapSeq(folder.files, LAMBDA f : Row("a", f, f)))

\* what the server answers to the request for a folder: its page, or 404 when
\* it has no such folder or when this request fails
WebReply(tr, stillScaryPath, failing) ==
  LET key == IF StartsWith(stillScaryPath, <<SL>>) THEN stillScaryPath
             ELSE <<SL>> \o stillScaryPath
  IN  IF failing \/ key \notin DOMAIN tr
      THEN [ok |-> FALSE, statusText |-> "Not Found", body |-> NoBody]
      ELSE [ok |-> TRUE, statusText |-> "OK", body |-> NginxPage(tr[key])]

YamlEnv(tr, scaryPath, failing) ==
  Env("granted", TRUE, QuietMessage, WebReply(tr, WriteKey(scaryPath), failing), QuietGithub)

EmptyYamls ==
  [dashboards |-> [k \in {} |-> <<>>], topsheets |-> [k \in {} |-> <<>>],
   vizes |-> [k \in {} |-> <<>>], configs |-> [k \in {} |-> <<>>]]

\* a try block that lets the listing error out
TryAncestorRethrow(currentPath, listing) ==
  [thrown |-> ~listing.ok,
   found |-> MapSeq(SelectSeq(listing.entry.dirs,
                              LAMBDA dir : MapSeq(dir, LowerCase) \in YAML_FOLDERS),
                    LAMBDA dir : ReplaceAll(currentPath \o <<SL>> \o dir, <<SL, SL>>, <<SL>>))]

\* try { ... push the config folders among dirs ... } catch (e) {}
TryAncestor(currentPath, listing) ==
  [thrown |-> FALSE,
   found |-> IF ~listing.ok THEN <<>>
             ELSE MapSeq(SelectSeq(listing.entry.dirs,
                                   LAMBDA dir : MapSeq(dir, LowerCase) \in YAML_FOLDERS),
                         LAMBDA dir : ReplaceAll(currentPath \o <<SL>> \o dir,
                                                 <<SL, SL>>, <<SL>>))]

\* one turn of the first loop, given the listing of currentPath
AncestorStep(st, currentPath, listing) ==
  [st EXCEPT !.cache = listing.cache,
             !.n = @ + 1,
             !.currentPath = currentPath,
             !.configFolders = @ \o TryAncestor(currentPath, listing).found,
             !.walked = Append(@, [path |-> currentPath, ok |-> listing.ok]),
             !.thrown = TryAncestor(currentPath, listing).thrown]

\* the first loop of findAllYamlConfigs; fails holds the numbers of the
\* getDirectory calls whose request fails
RECURSIVE WalkAncestors(_, _, _, _, _)
WalkAncestors(cfg, chunks, st, tr, fails) ==
  IF chunks = <<>> \/ st.thrown THEN st
  ELSE LET currentPath == ReplaceAll(st.currentPath \o Head(chunks) \o <<SL>>,
                                     <<SL, SL>>, <<SL>>)
       IN  CHOOSE out \in
             {WalkAncestors(cfg, Tail(chunks), next, tr, fails) :
                next \in {AncestorStep(st, currentPath, listing) :
                            listing \in {getDirectory(st.cache, cfg, currentPath,
                                            YamlEnv(tr, currentPath,
                                                    (st.n + 1) \in fails))}}} : TRUE

\* micromatch.match(files, pattern).map(yaml => (map[yaml] = path))
RecordMatches(map, configFolder, files, Pattern(_)) ==
  LET hits == {f \in {files[i] : i \in 1..Len(files)} : Pattern(f)}
  IN  [yaml \in DOMAIN map \cup hits |->
         IF yaml \in hits
         THEN ReplaceAll(configFolder \o <<SL>> \o yaml, <<SL, SL>>, <<SL>>)
         ELSE map[yaml]]

\* one turn of the second loop, given the listing of configFolder
ScanStep(st, configFolder, listing) ==
  LET files == listing.entry.files
      scan == [path |-> configFolder, ok |-> listing.ok, files |-> files]
  IN  IF ~listing.ok
      THEN [st EXCEPT !.cache = listing.cache, !.n = @ + 1,
                      !.scanned = Append(@, scan), !.thrown = TRUE]
      ELSE [st EXCEPT !.cache = listing.cache,
                      !.n = @ + 1,
                      !.scanned = Append(@, scan),
                      !.yamls = [dashboards |-> RecordMatches(@.dashboards, configFolder,
                                                              files, dashboard),
                                 topsheets |-> RecordMatches(@.topsheets, configFolder,
                                                             files, topsheet),
                                 vizes |-> RecordMatches(@.vizes, configFolder, files, viz),
                                 configs |-> RecordMatches(@.configs, configFolder,
                                                           files, config)]]

\* the second loop: a listing that fails here is not caught
RECURSIVE ScanFolders(_, _, _, _, _)
ScanFolders(cfg, folders, st, tr, fails) ==
  IF folders = <<>> \/ st.thrown THEN st
  ELSE CHOOSE out \in
         {ScanFolders(cfg, Tail(folders), next, tr, fails) :
            next \in {ScanStep(st, Head(folders), listing) :
                        listing \in {getDirectory(st.cache, cfg, Head(folders),
                                        YamlEnv(tr, Head(folders),
                                                (st.n + 1) \in fails))}}} : TRUE

\* an order that puts the working folder first
TargetFirst(configFolders, folder) == <<folder>> \o configFolders

\* configFolders.push(folder), after the ancestors' config folders
TargetLast(configFolders, folder) == Append(configFolders, folder)

findAllYamlConfigs(cache, cfg, folder, tr, fails) ==
  LET fullFolder == IF StartsWith(folder, <<SL>>) THEN folder ELSE <<SL>> \o folder
      start == [cache |-> cache, n |-> 0, currentPath |-> <<SL>>, configFolders |-> <<>>,
                walked |-> <<>>, scanned |-> <<>>, thrown |-> FALSE, yamls |-> EmptyYamls]
  IN  CHOOSE out \in
        {ScanFolders(cfg, configFolders,
                     [ancestors EXCEPT !.configFolders = configFolders], tr, fails) :
           <<ancestors, configFolders>> \in
             {<<a, TargetLast(a.configFolders, folder)>> :
                a \in {WalkAncestors(cfg, pathChunks, start, tr, fails) :
                         pathChunks \in {DropLast(Split(fullFolder))}}}} : TRUE

\* ------------------------------------------------------------------ URLs

\* String.prototype.replace(pat, rep) with a string pattern: the first match only
RECURSIVE Replace(_, _, _)
Replace(s, pat, rep) ==
  IF Len(s) < Len(pat) THEN s
  ELSE IF StartsWith(s, pat) THEN rep \o SubSeq(s, Len(pat) + 1, Len(s))
       ELSE <<Head(s)>> \o Replace(Tail(s), pat, rep)

\* this.baseUrl: project.baseURL, with a separator added when it ends without
baseUrl(baseURL) == IF EndsWith(baseURL, <<SL>>) THEN baseURL ELSE Append(baseURL, SL)

RECURSIVE DropSeparators(_)
DropSeparators(s) == IF s # <<>> /\ Head(s) = SL THEN DropSeparators(Tail(s)) ELSE s

\* new URL(path).href of an http(s) URL: the separators after the scheme are
\* read as two, the host ends at the next separator, and the path goes
\* through the path state
UrlHref(path) ==
  LET authority == DropSeparators(SubSeq(path, 3, Len(path)))
      slash == CHOOSE i \in 1..(Len(authority) + 1) :
                 /\ i = Len(authority) + 1 \/ authority[i] = SL
                 /\ \A j \in 1..(i - 1) : authority[j] # SL
  IN  SubSeq(path, 1, 2) \o <<SL, SL>> \o SubSeq(authority, 1, slash - 1) \o <<SL>>
        \o LocalUrlPath(SubSeq(authority, slash + 1, Len(authority)))

cleanURL(base, scaryPath) ==
  UrlHref(Replace(Replace(ReplaceAll(ReplaceAll(base \o StripScaryPrefix(scaryPath),
                                                <<SL, SL>>, <<SL>>),
                                     <<SL, SL>>, <<SL>>),
                          <<"https", ":", SL>>, <<"https", ":", SL, SL>>),
                  <<"http", ":", SL>>, <<"http", ":", SL, SL>>))

\* ------------------------------------------------------------------ token exchange

\* calls that exchange a token in one behaviour
MaxExchanges == 2

\* messages the window receives in one behaviour
MaxMessages == 3

\* event.data of a message: an object with or without the two fields, or null
MessageData ==
  {[isObject |-> TRUE, accessToken |-> a, username |-> u] : a \in BOOLEAN, u \in BOOLEAN}
    \cup {[isObject |-> FALSE, accessToken |-> FALSE, username |-> FALSE]}

NoMessage == [isObject |-> TRUE, accessToken |-> FALSE, username |-> FALSE]

\* handleMessage: resolve, reject, or the TypeError of reading a property of
\* null, which leaves the promise pending
handleMessage(data) ==
  IF ~data.isObject THEN "pending"
  ELSE IF data.accessToken /\ data.username THEN "resolved"
  ELSE "rejected"

\* ------------------------------------------------------------------ XYT worker

\* XytDataParser.worker.ts: one layer holds LAYER_SIZE rows. The worker has
\* 0.5 * 1024 * 1024; the arithmetic of appendResults is the same for any
\* size, and a small one lets a chunk span several layers.
LAYER_SIZE == 3

\* new Float32Array(LAYER_SIZE): every cell is zero. A row is written as its
\* arrival number (1, 2, ...), which stands for its projected coordinates,
\* time and value.
NewLayer == [i \in 1..LAYER_SIZE |-> 0]

\* layerData.time.subarray(0, offset)
subarray(layerData, offset) == SubSeq(layerData, 1, offset)

\* the messages of the worker
StatusMessage == [kind |-> "status", rows |-> <<>>]

ErrorMessage == [kind |-> "error", rows |-> <<>>]

FinishedMessage == [kind |-> "finished", rows |-> <<>>]

\* postMessage(layerData, [...buffers])
postResults(posted, rows) == Append(posted, [kind |-> "layer", rows |-> rows])

\* for (let i = 0; i < k; i++) layerData[offset + i] = data[i]
FillLayer(layerData, offset, data, k) ==
  [i \in 1..LAYER_SIZE |->
     IF i > offset /\ i <= offset + k THEN data[i - offset] ELSE layerData[i]]

\* appendResults(results): bad is the position in results.data of the row
\* whose projection throws (0: none does). The exception leaves the loop
\* before offset is advanced.
RECURSIVE appendResults(_, _, _)
appendResults(w, data, bad) ==
  LET numRows == Len(data)
      rowsToFill == IF numRows < LAYER_SIZE - w.offset THEN numRows
                    ELSE LAYER_SIZE - w.offset
  IN  IF bad \in 1..rowsToFill
      THEN [w EXCEPT !.pc = "thrown",
                     !.layerData = FillLayer(w.layerData, w.offset, data, bad - 1)]
      ELSE LET filled == FillLayer(w.layerData, w.offset, data, rowsToFill)
               full == w.offset + rowsToFill = LAYER_SIZE
               after == [w EXCEPT !.offset = IF full THEN 0 ELSE @ + rowsToFill,
                                  !.totalRowsRead = @ + rowsToFill,
                                  !.posted = IF full THEN postResults(@, filled) ELSE @,
                                  !.layerData = IF full THEN NewLayer ELSE filled]
           IN  IF rowsToFill < numRows
               THEN appendResults(after, SubSeq(data, rowsToFill + 1, numRows),
                                  IF bad = 0 THEN 0 ELSE bad - rowsToFill)
               ELSE [after EXCEPT !.posted = Append(@, StatusMessage)]

\* ------------------------------------------------------------------ at rest

\* the values the file, gzip and discovery variables hold before their first
\* step, and throughout the behaviours that never take one
NoFileEvent ==
  [op |-> "new", round |-> 0, adapter |-> "none", ok |-> TRUE, thrown |-> NoFileError,
   form |-> "none", data |-> <<>>]

IdleFile == project = Config(1) /\ fev = NoFileEvent

NoBuffer ==
  [pc |-> "idle", layers |-> 0, inner |-> <<>>, buffer |-> <<>>, ok |-> TRUE, out |-> <<>>,
   steps |-> 0]

IdleGzip == gz = NoBuffer

NoYamlEvent ==
  [op |-> "new", round |-> 0, folder |-> <<>>, before |-> EmptyMap, ok |-> TRUE,
   yamls |-> EmptyYamls, configFolders |-> <<>>, walked |-> <<>>, scanned |-> <<>>]

IdleYaml == tree = Tree(TRUE, TRUE) /\ yev = NoYamlEvent

NoUrl == [pc |-> "idle", baseUrl |-> <<>>, scaryPath |-> <<>>, href |-> <<>>]

IdleUrl == url = NoUrl

\* no exchange begun, no message received
NoExchange ==
  [pc |-> "new", site |-> "none", posted |-> 0, attached |-> 0, listening |-> FALSE,
   seen |-> 0, first |-> NoMessage, requests |-> 0]

NoAuth == [call |-> [i \in 1..MaxExchanges |-> NoExchange], messages |-> 0]

IdleAuth == auth = NoAuth

\* no local-handle call made yet
NoGate ==
  [pc |-> "idle", op |-> "new", store |-> TRUE, folder |-> <<>>, filename |-> <<>>,
   check |-> "none", touched |-> 0, calls |-> 0, outcome |-> "none"]

IdleGate == gate = NoGate

NoDots == [pc |-> "idle", parts |-> <<>>, out |-> <<>>]

IdleDots == dots = NoDots

NoPage == [pc |-> "idle", lines |-> <<>>, dialect |-> "none", entry |-> EmptyEntry]

IdlePage == page = NoPage

\* the worker as its module is loaded: an empty layer buffer (lines 86-94),
\* nothing posted
NoXyt ==
  [pc |-> "idle", offset |-> 0, layerData |-> NewLayer, totalRowsRead |-> 0,
   handed |-> 0, chunks |-> 0, posted |-> <<>>]

IdleXyt == xyt = NoXyt

IdleCalls == IdleUrl /\ IdleAuth /\ IdleGate /\ IdleDots /\ IdlePage /\ IdleXyt

\* ------------------------------------------------------------------ steps

InitList ==
  /\ CACHE = [s \in Slugs |-> EmptyMap]
  /\ inflight = EmptyBag
  /\ fetches = 0
  /\ ev = Event("new", 0, <<>>, EmptyEntry, NoThrow, NoError)
  /\ listed = [s \in Slugs |-> {}]

\* the entry the step before returned, when that step was a listing of the same
\* path on the same root
ReturnedJustBefore(r, scaryPath) ==
  IF ev.op \in {"hit", "done"} /\ ev.root = r /\ ev.path = scaryPath
  THEN {ev.entry}
  ELSE {}

\* getDirectory up to its first await: a hit returns the cached entry, a miss
\* invokes the adapter
StartList(r, scaryPath) ==
  LET slug == Config(r).slug
      hit == CachedEntry(CACHE, slug, scaryPath)
  IN  IF hit # {}
      THEN /\ ev' = [Event("hit", r, scaryPath, CHOOSE e \in hit : TRUE, NoThrow, NoError)
                       EXCEPT !.after = ReturnedJustBefore(r, scaryPath)]
           /\ listed' = [listed EXCEPT ![slug] = @ \cup {WriteKey(scaryPath)}]
           /\ UNCHANGED <<CACHE, inflight, fetches>>
      ELSE /\ fetches < MaxFetches
           /\ inflight' = inflight (+) SetToBag({[root |-> r, path |-> scaryPath]})
           /\ fetches' = fetches + 1
           /\ ev' = [Event("fetch", r, scaryPath, EmptyEntry, NoThrow, NoError)
                       EXCEPT !.after = ReturnedJustBefore(r, scaryPath)]
           /\ UNCHANGED <<CACHE, listed>>

\* getDirectory after the adapter has answered: sort, cache, return; or catch
\* and rethrow
FinishList(call, env) ==
  LET cfg == Config(call.root)
      result == CallAdapter(cfg, WriteKey(call.path), env)
  IN  /\ inflight' = inflight (-) SetToBag({call})
      /\ CACHE' = CacheWrite(CACHE, cfg.slug, call.path, result)
      /\ IF result.ok
         THEN /\ ev' = Event("done", call.root, call.path, SortEntry(result.entry),
                             NoThrow, NoError)
              /\ listed' = [listed EXCEPT ![cfg.slug] = @ \cup {WriteKey(call.path)}]
         ELSE /\ ev' = Event("fail", call.root, call.path, EmptyEntry,
                             getDirectoryCatch(call.path, result.error), result.error)
              /\ UNCHANGED listed
      /\ UNCHANGED fetches

clearCache(r) ==
  /\ CACHE' = ClearedCache(CACHE, Config(r).slug)
  /\ listed' = [listed EXCEPT ![Config(r).slug] = {}]
  /\ ev' = [Event("clear", r, <<>>, EmptyEntry, NoThrow, NoError)
              EXCEPT !.dropped = Cardinality(DOMAIN CACHE[Config(r).slug])]
  /\ UNCHANGED <<inflight, fetches>>

Init == InitList /\ IdleFile /\ IdleGzip /\ IdleYaml /\ IdleCalls

Next ==
  \/ \E r \in Roots, p \in Paths : StartList(r, p) /\ UNCHANGED <<fileVars, gz, yamlVars, callVars>>
  \/ \E call \in BagToSet(inflight) : \E env \in Envs(Config(call.root)) :
       FinishList(call, env) /\ UNCHANGED <<fileVars, gz, yamlVars, callVars>>
  \/ \E r \in Roots : clearCache(r) /\ UNCHANGED <<fileVars, gz, yamlVars, callVars>>

Spec == Init /\ [][Next]_vars

\* ------------------------------------------------------------------ steps: gzip

\* deepest nesting of gzip layers
MaxLayers == 3

\* longest innermost payload
MaxInner == 2

\* n gzip layers around a payload
RECURSIVE Wrap(_, _)
Wrap(n, inner) == IF n = 0 THEN inner ELSE Gzip(Wrap(n - 1, inner))

\* a buffer arrives: some payload behind some number of gzip layers
InitGzip ==
  /\ InitList /\ IdleFile /\ IdleYaml /\ IdleCalls
  /\ \E n \in 0..MaxLayers, inner \in Strings(PayloadBytes, 0, MaxInner) :
       gz = [NoBuffer EXCEPT !.pc = "ready", !.layers = n, !.inner = inner,
                             !.buffer = Wrap(n, inner)]

\* const unzipped = this.gUnzip(buffer)
Unzip ==
  /\ gz.pc = "ready"
  /\ LET unzipped == gUnzip(gz.buffer)
     IN  gz' = [gz EXCEPT !.pc = "done", !.ok = unzipped.ok, !.out = unzipped.out,
                          !.steps = unzipped.steps]
  /\ UNCHANGED <<CACHE, listVars, fileVars, yamlVars, callVars>>

NextGzip == Unzip

SpecGzip == InitGzip /\ [][NextGzip]_vars

\* ------------------------------------------------------------------ steps: file reads

\* longest path handed to a file read
MaxFilePathLen == 3

\* file reads in one behaviour
MaxReads == 2

FileChars == {SL, "a"}

\* the file at the top of the local folder, and the one below it
TopFile == <<"b">>

FolderFile == <<"a", SL, "b">>

\* a file below a repository whose name ends in a binary extension
GzPath == <<"a", SL, "a", SL, "b", DOT, "gz">>

\* a file in a folder, written with a `.` and a `..` segment
DottedPath == <<"a", SL, DOT, SL, "b", SL, DOT, DOT, SL, "b">>

FilePaths ==
  Strings(FileChars, 1, MaxFilePathLen) \cup {TopFile, FolderFile, GzPath, DottedPath}

\* what a file holds: a JSON document, and the same document gzipped twice
FilePayloads == {<<48>>, Gzip(Gzip(<<48>>))}

\* every combination of the three flags
Projects ==
  {[slug |-> "local", handle |-> h, isGithub |-> g, needPassword |-> n, store |-> TRUE] :
     h \in BOOLEAN, g \in BOOLEAN, n \in BOOLEAN}

FileEnv(status, decision, message, reply, ghfile, payload) ==
  [status |-> status, decision |-> decision, message |-> message, reply |-> reply,
   github |-> QuietGithub, ghfile |-> ghfile, payload |-> payload]

OkReply == [ok |-> TRUE, statusText |-> "OK", body |-> NoBody]

\* the answers that matter to a read: the permission for a handle, the
\* contents API for GitHub, the token message and the response for a fetch
FileEnvs(cfg) ==
  IF cfg.handle
  THEN {FileEnv("granted", TRUE, QuietMessage, QuietReply, "content", b) : b \in FilePayloads}
       \cup {FileEnv("prompt", d, QuietMessage, QuietReply, "content", b) :
               d \in BOOLEAN, b \in FilePayloads}
  ELSE {FileEnv("granted", TRUE, m, x, g, b) :
          m \in (IF cfg.needPassword THEN AuthMessages ELSE {QuietMessage}),
          x \in {QuietReply, OkReply},
          g \in (IF cfg.isGithub THEN {"content", "blob", "notfound", "invalid"}
                 ELSE {"content"}),
          b \in FilePayloads}

InitFile ==
  /\ InitList /\ IdleGzip /\ IdleYaml /\ IdleCalls
  /\ project \in Projects
  /\ fev = NoFileEvent

ReadFile(op, scaryPath, env) ==
  \E r \in {CASE op = "text" -> getFileText(CACHE, project, scaryPath, env)
               [] op = "json" -> getFileJson(CACHE, project, scaryPath, env)
               [] op = "blob" -> getFileBlob(CACHE, project, scaryPath, env)
               [] OTHER -> getFileStream(CACHE, project, scaryPath, env)} :
      /\ fev.round < MaxReads
      /\ CACHE' = r.cache
      /\ fev' = [op |-> op, round |-> fev.round + 1, adapter |-> r.adapter, ok |-> r.ok,
                 thrown |-> r.thrown, form |-> r.form, data |-> r.data]
      /\ UNCHANGED <<project, listVars, gz, yamlVars, callVars>>

FileOps == {"text", "json", "blob", "stream"}

NextFile ==
  \E op \in FileOps, scaryPath \in FilePaths, env \in FileEnvs(project) :
    ReadFile(op, scaryPath, env)

SpecFile == InitFile /\ [][NextFile]_vars

\* ------------------------------------------------------------------ steps: YAML configs

\* the generic-http root
WebRoot == CHOOSE r \in Roots : DirectoryAdapter(Config(r)) = "generic-http"

\* getDirectory calls of one discovery whose request may fail
MaxYamlCalls == 7

\* discoveries in one behaviour
MaxDiscoveries == 2

\* the folders handed to findAllYamlConfigs
YamlTargets ==
  { <<SL, "p", SL, "q">>, <<"p", SL, "q">>, <<SL, "p", SL, "q", SL>>, <<SL, "p">>, <<SL>>,
    <<SL, "p", SL, "x">> }

InitYaml ==
  /\ InitList /\ IdleFile /\ IdleGzip /\ IdleCalls
  /\ tree \in Trees
  /\ yev = NoYamlEvent

FindConfigs(folder, fails) ==
  \E r \in {findAllYamlConfigs(CACHE, Config(WebRoot), folder, tree, fails)} :
      /\ yev.round < MaxDiscoveries
      /\ CACHE' = r.cache
      /\ yev' = [op |-> "yaml", round |-> yev.round + 1, folder |-> folder,
                 before |-> CACHE[Config(WebRoot).slug],
                 ok |-> ~r.thrown, yamls |-> r.yamls, configFolders |-> r.configFolders,
                 walked |-> r.walked, scanned |-> r.scanned]
      /\ UNCHANGED <<listVars, fileVars, gz, tree, callVars>>

\* one discovery; at most one of its requests fails (0: none does)
NextYaml ==
  \E folder \in YamlTargets, failing \in 0..MaxYamlCalls :
    FindConfigs(folder, {failing} \ {0})

SpecYaml == InitYaml /\ [][NextYaml]_vars

\* ------------------------------------------------------------------ steps: URLs

\* longest path handed to cleanURL
MaxUrlLen == 4

\* the characters of those paths: the separator, a letter, and two characters
\* outside [0-9a-zA-Z_-/:+]
UrlChars == {SL, DOT, "a", "~"}

\* project.baseURL: a host, and a folder on a host
BaseURLs ==
  { <<"https", ":", SL, SL, "host">>, <<"http", ":", SL, SL, "host", SL, "a", SL>> }

InitUrl ==
  /\ InitList /\ IdleFile /\ IdleGzip /\ IdleYaml /\ IdleAuth /\ IdleGate /\ IdleDots /\ IdlePage
  /\ IdleXyt
  /\ \E baseURL \in BaseURLs, scaryPath \in Strings(UrlChars, 0, MaxUrlLen) :
       url = [NoUrl EXCEPT !.pc = "ready", !.baseUrl = baseUrl(baseURL),
                           !.scaryPath = scaryPath]

\* const path = this.cleanURL(scaryPath)
CleanUrl ==
  /\ url.pc = "ready"
  /\ url' = [url EXCEPT !.pc = "done", !.href = cleanURL(url.baseUrl, url.scaryPath)]
  /\ UNCHANGED <<mainVars, auth, gate, dots, page>>

NextUrl == CleanUrl

SpecUrl == InitUrl /\ [][NextUrl]_vars

\* ------------------------------------------------------------------ steps: token exchange

\* the two places that exchange a token: a file read and a directory listing
ExchangeSites == {"_getFileFetchResponse", "_getDirectoryFromAWS"}

InitAuth ==
  /\ InitList /\ IdleFile /\ IdleGzip /\ IdleYaml /\ IdleUrl /\ IdleGate /\ IdleDots /\ IdlePage
  /\ IdleXyt
  /\ auth = NoAuth

\* window.parent.postMessage('requestAuthToken', '*') and
\* window.addEventListener('message', handleMessage, { once: true })
RequestToken(i, site) ==
  /\ auth.call[i].pc = "new"
  /\ auth' = [auth EXCEPT !.call[i] =
                 [@ EXCEPT !.pc = "pending", !.site = site, !.posted = @ + 1,
                           !.attached = @ + 1, !.listening = TRUE]]
  /\ UNCHANGED <<mainVars, url, gate, dots, page>>

\* a message event: every attached listener runs once and is removed
Message(data) ==
  /\ auth.messages < MaxMessages
  /\ auth' = [auth EXCEPT
                 !.messages = @ + 1,
                 !.call = [i \in 1..MaxExchanges |->
                             IF auth.call[i].listening
                             THEN [auth.call[i] EXCEPT !.pc = handleMessage(data),
                                                       !.listening = FALSE,
                                                       !.seen = @ + 1,
                                                       !.first = data]
                             ELSE auth.call[i]]]
  /\ UNCHANGED <<mainVars, url, gate, dots, page>>

\* await fetch(fullPath, { method: 'GET', headers }) with the Bearer token
AuthenticatedFetch(i) ==
  /\ auth.call[i].pc = "resolved"
  /\ auth' = [auth EXCEPT !.call[i] = [@ EXCEPT !.pc = "fetched", !.requests = @ + 1]]
  /\ UNCHANGED <<mainVars, url, gate, dots, page>>

\* the rejection leaves the call as a thrown Error
Rejected(i) ==
  /\ auth.call[i].pc = "rejected"
  /\ auth' = [auth EXCEPT !.call[i] = [@ EXCEPT !.pc = "thrown"]]
  /\ UNCHANGED <<mainVars, url, gate, dots, page>>

NextAuth ==
  \/ \E i \in 1..MaxExchanges, site \in ExchangeSites : RequestToken(i, site)
  \/ \E data \in MessageData : Message(data)
  \/ \E i \in 1..MaxExchanges : AuthenticatedFetch(i)
  \/ \E i \in 1..MaxExchanges : Rejected(i)

SpecAuth == InitAuth /\ [][NextAuth]_vars

\* ------------------------------------------------------------------ steps: permission gate

\* local-handle calls in one behaviour
MaxGateCalls == 3

\* the folders listed and the files read through the handle
GateFolders == {<<SL>>, <<SL, "a">>}

GateFiles == {<<"b">>, <<"a", SL, "b">>, <<"a", SL, "x">>}

\* the local root, constructed with or without a store
GateConfig == [Config(1) EXCEPT !.store = gate.store]

GateEnv(status, decision) == Env(status, decision, QuietMessage, QuietReply, QuietGithub)

\* for await (... of currentDir) on a handle whose read permission is not
\* granted
NotAllowed == Fail(Thrown("NotAllowedError", "The request is not allowed", <<>>))

InitGate ==
  /\ InitList /\ IdleFile /\ IdleGzip /\ IdleYaml /\ IdleUrl /\ IdleAuth /\ IdleDots /\ IdlePage
  /\ IdleXyt
  /\ \E store \in BOOLEAN : gate = [NoGate EXCEPT !.store = store]

\* where a call goes once getDirectory has returned the folder's entry
AfterListing == IF gate.op = "list" THEN "idle" ELSE "getFile"

\* getDirectory up to the permission check: the cached entry when there is
\* one, else getDirectoryFromHandle
BeginGate(op, folder, filename) ==
  /\ gate.pc = "idle"
  /\ gate.calls < MaxGateCalls
  /\ gate' = [gate EXCEPT
                 !.op = op, !.folder = folder, !.filename = filename,
                 !.check = "none", !.touched = 0, !.calls = @ + 1,
                 !.outcome = IF CachedEntry(CACHE, GateConfig.slug, folder) # {} /\ op = "list"
                             THEN "returned" ELSE "none",
                 !.pc = IF CachedEntry(CACHE, GateConfig.slug, folder) = {}
                        THEN "queryPermission"
                        ELSE IF op = "list" THEN "idle" ELSE "getFile"]
  /\ UNCHANGED <<mainVars, url, auth, dots, page>>

\* this.getDirectory(scaryPath)
ListFolder(folder) == BeginGate("list", folder, <<>>)

\* _getFileFromChromeFileSystem up to this.getDirectory(folder)
ReadHandleFile(scaryPath) ==
  \E path \in {LocalUrlPath(ReplaceAll(StripScaryPrefix(scaryPath), <<SL, SL>>, <<SL>>))} :
    BeginGate("read", SubSeq(path, 1, LastIndexOfSlash(path) - 1),
              SubSeq(path, LastIndexOfSlash(path) + 1, Len(path)))

\* const status = await handle.queryPermission({ mode: 'read' }), and what
\* getChromePermission does with it
QueryPermission(status) ==
  /\ gate.pc = "queryPermission"
  /\ IF status # "granted" /\ gate.store
     THEN gate' = [gate EXCEPT !.pc = "prompt", !.check = "pending"]
     ELSE gate' = [gate EXCEPT !.pc = "enumerate",
                               !.check = IF status = "granted" THEN "granted" ELSE "assumed"]
  /\ UNCHANGED <<mainVars, url, auth, dots, page>>

\* the user's answer resolves the promise handed to the store; on a denial
\* getDirectoryFromHandle returns its empty contents to getDirectory
Decide(decision) ==
  /\ gate.pc = "prompt"
  /\ IF getChromePermission(TRUE, "prompt", gate.store, decision)
     THEN /\ gate' = [gate EXCEPT !.pc = "enumerate", !.check = "granted"]
          /\ UNCHANGED CACHE
     ELSE /\ gate' = [gate EXCEPT !.pc = AfterListing, !.check = "denied",
                                  !.outcome = IF gate.op = "list" THEN "returned" ELSE "none"]
          /\ CACHE' = CacheWrite(CACHE, GateConfig.slug, gate.folder,
                                 getDirectoryFromHandle(WriteKey(gate.folder), GateConfig,
                                                        GateEnv("prompt", decision)))
  /\ UNCHANGED <<restVars, url, auth, dots, page>>

\* the walk down the handle and the enumeration of the folder, then the sort
\* and the cache write of getDirectory
Enumerate ==
  /\ gate.pc = "enumerate"
  /\ \E result \in {IF gate.check = "assumed" THEN NotAllowed
                     ELSE getDirectoryFromHandle(WriteKey(gate.folder), GateConfig,
                                                 GateEnv("granted", TRUE))} :
       /\ gate' = [gate EXCEPT !.touched = @ + 1,
                               !.pc = IF result.ok THEN AfterListing ELSE "idle",
                               !.outcome = IF ~result.ok THEN "thrown"
                                           ELSE IF gate.op = "list" THEN "returned"
                                           ELSE "none"]
       /\ CACHE' = CacheWrite(CACHE, GateConfig.slug, gate.folder, result)
  /\ UNCHANGED <<restVars, url, auth, dots, page>>

\* const fileHandle = dirContents.handles[filename], then fileHandle.getFile()
GetFile ==
  /\ gate.pc = "getFile"
  /\ \E dirContents \in CachedEntry(CACHE, GateConfig.slug, gate.folder) :
       IF gate.filename \in dirContents.handles
       THEN gate' = [gate EXCEPT !.pc = "idle", !.touched = @ + 1, !.outcome = "returned"]
       ELSE gate' = [gate EXCEPT !.pc = "idle", !.outcome = "thrown"]
  /\ UNCHANGED <<mainVars, url, auth, dots, page>>

NextGate ==
  \/ \E folder \in GateFolders : ListFolder(folder)
  \/ \E scaryPath \in GateFiles : ReadHandleFile(scaryPath)
  \/ \E status \in {"granted", "prompt"} : QueryPermission(status)
  \/ \E decision \in BOOLEAN : Decide(decision)
  \/ Enumerate
  \/ GetFile

SpecGate == InitGate /\ [][NextGate]_vars

\* ------------------------------------------------------------------ steps: eatDots

\* longest list of segments handed to eatDots
MaxParts == 4

\* the segments: three names and `..`
Segments == {<<"a">>, <<"b">>, <<"c">>, <<DOT, DOT>>}

InitDots ==
  /\ InitList /\ IdleFile /\ IdleGzip /\ IdleYaml /\ IdleUrl /\ IdleAuth /\ IdleGate /\ IdlePage
  /\ IdleXyt
  /\ \E parts \in Strings(Segments, 0, MaxParts) : dots = [NoDots EXCEPT !.pc = "ready",
                                                                       !.parts = parts]

\* const cleanDirParts: string[] = eatDots(parts)
EatDots ==
  /\ dots.pc = "ready"
  /\ dots' = [dots EXCEPT !.pc = "done", !.out = eatDots(dots.parts)]
  /\ UNCHANGED <<mainVars, url, auth, gate, page>>

NextDots == EatDots

SpecDots == InitDots /\ [][NextDots]_vars

\* ------------------------------------------------------------------ steps: HTML listings

\* most lines of a body
MaxLines == 3

\* the lines bodies are made of: the markup of the four dialects that have a
\* word of their own, other text, and link rows of an nginx page and of a list
HtmlLines ==
  {TextLine(m) : m \in {SigSimpleWebServer, SigSVN, SigNpxServe, SigApache24, "text"}}
    \cup {LinkLine(Row("a", <<"b">>, <<"b">>)), LinkLine(Row("a", <<"a", SL>>, <<"a", SL>>)),
          LinkLine(Row("li", <<"b">>, <<"b">>))}

InitPage ==
  /\ InitList /\ IdleFile /\ IdleGzip /\ IdleYaml /\ IdleUrl /\ IdleAuth /\ IdleGate
  /\ IdleXyt
  /\ IdleDots
  /\ \E lines \in Strings(HtmlLines, 0, MaxLines) :
       page = [NoPage EXCEPT !.pc = "ready", !.lines = lines]

\* const dirEntry = this.buildListFromHtml(htmlListing)
BuildList ==
  /\ page.pc = "ready"
  /\ page' = [page EXCEPT !.pc = "done",
                          !.dialect = HtmlDialect(BodyOfLines(page.lines)),
                          !.entry = buildListFromHtml(BodyOfLines(page.lines))]
  /\ UNCHANGED <<mainVars, url, auth, gate, dots>>

NextPage == BuildList

SpecPage == InitPage /\ [][NextPage]_vars

\* ------------------------------------------------------------------ steps: XYT worker

\* chunks Papaparse hands to appendResults in one load
MaxChunks == 3

\* rows in one chunk: enough to fill two layers and start a third
MaxChunkRows == 7

InitXyt ==
  /\ InitList /\ IdleFile /\ IdleGzip /\ IdleYaml /\ IdleUrl /\ IdleAuth /\ IdleGate /\ IdleDots
  /\ IdlePage /\ IdleXyt

\* onmessage: startLoading(e.data) runs up to its await; step1PrepareFetch
\* posts its status line. The message that starts the load arrives once.
StartLoading ==
  /\ xyt.pc = "idle"
  /\ xyt' = [xyt EXCEPT !.pc = "preparing", !.posted = Append(@, StatusMessage)]
  /\ UNCHANGED <<CACHE, listVars, fileVars, gz, yamlVars, url, auth, gate, dots, page>>

\* step1PrepareFetch fails: it posts the error and throws, and startLoading
\* ends there
PrepareFails ==
  /\ xyt.pc = "preparing"
  /\ xyt' = [xyt EXCEPT !.pc = "failed", !.posted = Append(@, ErrorMessage)]
  /\ UNCHANGED <<CACHE, listVars, fileVars, gz, yamlVars, url, auth, gate, dots, page>>

\* step1PrepareFetch returns the url: step2fetchCSVdata calls Papaparse.parse,
\* which in a worker downloads and parses before it returns
Prepared ==
  /\ xyt.pc = "preparing"
  /\ xyt' = [xyt EXCEPT !.pc = "parsing"]
  /\ UNCHANGED <<CACHE, listVars, fileVars, gz, yamlVars, url, auth, gate, dots, page>>

\* Papaparse hands the next chunk of numRows rows to appendResults. When a
\* projection throws, the exception leaves Papaparse.parse for the catch of
\* step2fetchCSVdata, which posts the error and returns, and startLoading
\* posts `finished`.
Chunk(numRows, bad) ==
  /\ xyt.pc = "parsing"
  /\ xyt.chunks < MaxChunks
  /\ \E r \in {appendResults([xyt EXCEPT !.handed = @ + numRows, !.chunks = @ + 1],
                             [i \in 1..numRows |-> xyt.handed + i], bad)} :
       xyt' = IF r.pc = "thrown"
              THEN [r EXCEPT !.pc = "done",
                             !.posted = @ \o <<ErrorMessage, FinishedMessage>>]
              ELSE r
  /\ UNCHANGED <<CACHE, listVars, fileVars, gz, yamlVars, url, auth, gate, dots, page>>

\* Papaparse.parse returns after the last chunk: step2fetchCSVdata posts the
\* rows left in the buffer, and startLoading posts `finished`
ParseReturns ==
  /\ xyt.pc = "parsing"
  /\ xyt' = [xyt EXCEPT
       !.pc = "done",
       !.posted = (IF xyt.offset # 0
                   THEN postResults(@, subarray(xyt.layerData, xyt.offset))
                   ELSE @) \o <<FinishedMessage>>]
  /\ UNCHANGED <<CACHE, listVars, fileVars, gz, yamlVars, url, auth, gate, dots, page>>

NextXyt ==
  \/ StartLoading
  \/ PrepareFails
  \/ Prepared
  \/ \E numRows \in 0..MaxChunkRows, bad \in 0..MaxChunkRows :
       bad <= numRows /\ Chunk(numRows, bad)
  \/ ParseReturns

SpecXyt == InitXyt /\ [][NextXyt]_vars

\* ------------------------------------------------------------------ claims: cache

SlugOf(r) == Config(r).slug

Contains(s, pat) == \E i \in 1..(Len(s) - Len(pat) + 1) : SubSeq(s, i, i + Len(pat) - 1) = pat

\* an already-normalized path: no duplicate separators, a single trailing
\* separator, no `/./` segment
IsNormalized(p) ==
  /\ ~Contains(p, <<SL, SL>>)
  /\ ~Contains(p, <<SL, DOT, SL>>)
  /\ EndsWith(p, <<SL>>)

\* C1: a listDirectory(p) of an already-normalized path made right after a
\* listDirectory(p) on the same root has returned is a cache hit that returns
\* the entry the first call returned; and whatever happens in between, short
\* of a clearCache, no adapter is invoked for a normalized path that has been
\* listed on the root.
C1_ListIdempotent ==
  /\ (ev.op \in {"hit", "fetch"} /\ ev.after # {} /\ IsNormalized(ev.path))
       => (ev.op = "hit" /\ ev.after = {ev.entry})
  /\ (ev.op = "fetch" /\ IsNormalized(ev.path)) => ev.path \notin listed[SlugOf(ev.root)]

\* the second of two calls in a row for a normalized path, the first of which
\* fetched a listing with names in it
C1_Witness ==
  /\ ev.op = "hit"
  /\ IsNormalized(ev.path)
  /\ ev.after = {ev.entry}
  /\ ev.entry.files # <<>>
  /\ fetches = 1

\* C2: once a listDirectory(p) has returned on a root, and until clearCache,
\* no listDirectory(q) with the same normalizedPath invokes an adapter: it is
\* a cache hit. The normalizedPath of q is the one getDirectory itself computes
\* for q and writes the cache under.
C2_LookupByNormalizedPath ==
  ev.op = "fetch" => WriteKey(ev.path) \notin listed[SlugOf(ev.root)]

\* C3: clearCache leaves the root's partition empty and every other partition
\* as it was, and a listDirectory on that root right after it invokes the
\* adapter.
C3_ClearOnlyOwnPartition ==
  [][ /\ (ev'.op = "clear" =>
            /\ DOMAIN CACHE'[SlugOf(ev'.root)] = {}
            /\ \A s \in Slugs \ {SlugOf(ev'.root)} : CACHE'[s] = CACHE[s])
      /\ (ev.op = "clear" /\ ev'.op \in {"hit", "fetch"} /\ ev'.root = ev.root
            => ev'.op = "fetch") ]_vars

\* a clearCache that dropped an entry while another slug holds one
C3_Witness ==
  /\ ev.op = "clear"
  /\ ev.dropped > 0
  /\ DOMAIN CACHE[SlugOf(ev.root)] = {}
  /\ \E s \in Slugs : DOMAIN CACHE[s] # {}

\* C4: neither step of a failing listDirectory (the miss that invokes the
\* adapter, the catch that rethrows) changes the cache, so the path is not
\* cached by the failure.
C4_FailureNeverCaches ==
  [][ (ev'.op \in {"fetch", "fail"} => CACHE' = CACHE)
      /\ (ev'.op = "fail" /\ CachedEntry(CACHE, SlugOf(ev'.root), ev'.path) = {}
            => CachedEntry(CACHE', SlugOf(ev'.root), ev'.path) = {}) ]_vars

\* a failed listing whose path is not cached, with another entry in the cache
C4_Witness ==
  /\ ev.op = "fail"
  /\ CachedEntry(CACHE, SlugOf(ev.root), ev.path) = {}
  /\ DOMAIN CACHE[SlugOf(ev.root)] # {}

\* whether the thrown error names the path, and whether it keeps the cause
\* (its kind and its message; the status text of a response)
CarriesPath(e, scaryPath) == e.message.arg = scaryPath

CarriesCause(e, cause) ==
  /\ e.message.text = cause.text
  /\ e.message.arg = cause.arg
  /\ cause.kind # "Response" => e.message.head = cause.kind

\* C5 as claimed: every failure reaches the caller as one error kind that
\* carries the original path and the underlying cause.
C5_ErrorCarriesPathAndCause ==
  ev.op = "fail" =>
    /\ ev.error.kind = "Error"
    /\ CarriesPath(ev.error, ev.path)
    /\ CarriesCause(ev.error, ev.cause)

\* ------------------------------------------------------------------ claims: names

HasSeparator(name) == \E i \in 1..Len(name) : name[i] = SL

NamesOf(e) == {e.dirs[i] : i \in 1..Len(e.dirs)} \cup {e.files[i] : i \in 1..Len(e.files)}

\* C8: in every entry listDirectory returns, no name contains a separator and
\* no directory name ends with one.
C8_NamesHaveNoSeparator ==
  ev.op \in {"hit", "done"} =>
    /\ \A n \in NamesOf(ev.entry) : ~HasSeparator(n)
    /\ \A i \in 1..Len(ev.entry.dirs) : ~EndsWith(ev.entry.dirs[i], <<SL>>)

\* ------------------------------------------------------------------ claims: file reads

\* the first adapter in the order local-handle > github > authenticated-proxy
\* > generic-http whose flag is set
FirstInPrecedence(cfg) ==
  CHOOSE a \in {"local-handle", "github", "authenticated-proxy", "generic-http"} :
    \/ a = "local-handle" /\ cfg.handle
    \/ a = "github" /\ ~cfg.handle /\ cfg.isGithub
    \/ a = "authenticated-proxy" /\ ~cfg.handle /\ ~cfg.isGithub /\ cfg.needPassword
    \/ a = "generic-http" /\ ~cfg.handle /\ ~cfg.isGithub /\ ~cfg.needPassword

\* C6: every read (text, JSON, binary, stream), whatever the flags of the root,
\* invokes the adapter that comes first in the precedence.
C6_ReadsFollowPrecedence ==
  fev.op \in FileOps => fev.adapter = FirstInPrecedence(project)

\* C7: a payload that does not begin with the magic number, wrapped in n gzip
\* layers, comes out of one gUnzip call as it went in, after exactly n inflate
\* steps; with n = 0 the buffer is returned unchanged.
C7_UnwrapsEveryLayer ==
  (gz.pc = "done" /\ ~StartsWith(gz.inner, GzipMagic)) =>
    /\ gz.ok
    /\ gz.out = gz.inner
    /\ gz.steps = gz.layers
    /\ gz.layers = 0 => gz.out = gz.buffer

\* a payload behind two or more layers, unwrapped
C7_Witness ==
  /\ gz.pc = "done"
  /\ gz.layers >= 2
  /\ gz.inner # <<>>
  /\ ~StartsWith(gz.inner, GzipMagic)
  /\ gz.buffer # gz.inner
  /\ gz.out = gz.inner
  /\ gz.steps = gz.layers

\* ------------------------------------------------------------------ claims: YAML configs

\* the scanned candidate folders whose listing holds the file name
Holders(name) ==
  {i \in 1..Len(yev.scanned) :
     \E j \in 1..Len(yev.scanned[i].files) : yev.scanned[i].files[j] = name}

ScannedNames ==
  UNION {{yev.scanned[i].files[j] : j \in 1..Len(yev.scanned[i].files)} :
           i \in 1..Len(yev.scanned)}

Matches(class, name) ==
  CASE class = "dashboards" -> dashboard(name)
    [] class = "topsheets" -> topsheet(name)
    [] class = "vizes" -> viz(name)
    [] OTHER -> config(name)

\* candidate i is at least as close to the target as candidate j: it is the
\* target (the last one), or the folder it lies in is at least as deep
AsCloseAs(i, j) ==
  LET cands == yev.configFolders
      In(c) == SubSeq(c, 1, LastIndexOfSlash(c))
  IN  \/ i = Len(cands)
      \/ j # Len(cands) /\ Len(In(cands[i])) >= Len(In(cands[j]))

\* C9: the candidate folders are scanned root to leaf with the target last,
\* and each mapping holds, for every matching file name found, the path inside
\* the holder closest to the target: the target itself when it holds the name.
C9_ClosestFolderWins ==
  (yev.op = "yaml" /\ yev.ok) =>
    LET cands == yev.configFolders
        last == Len(cands)
    IN  /\ last >= 1 /\ cands[last] = yev.folder
        /\ Len(yev.scanned) = last
        /\ \A i \in 1..last : yev.scanned[i].path = cands[i]
        /\ \A i \in 1..last, j \in 1..last : i < j => AsCloseAs(j, i)
        /\ \A class \in DOMAIN yev.yamls :
             /\ DOMAIN yev.yamls[class] = {n \in ScannedNames : Matches(class, n)}
             /\ \A n \in DOMAIN yev.yamls[class] :
                  \E w \in Holders(n) :
                    /\ yev.yamls[class][n]
                         = ReplaceAll(cands[w] \o <<SL>> \o n, <<SL, SL>>, <<SL>>)
                    /\ \A i \in Holders(n) : AsCloseAs(w, i)
                    /\ last \in Holders(n) => w = last

\* a dashboard held by the target and by two ancestors' config folders,
\* resolved to the target's
C9_Witness ==
  /\ yev.op = "yaml" /\ yev.ok
  /\ Cardinality(Holders(DashboardFile)) >= 3
  /\ Len(yev.configFolders) \in Holders(DashboardFile)
  /\ DashboardFile \in DOMAIN yev.yamls.dashboards
  /\ yev.yamls.dashboards[DashboardFile]
       = ReplaceAll(yev.folder \o <<SL>> \o DashboardFile, <<SL, SL>>, <<SL>>)

\* the ancestors whose listing failed
FailedAncestors ==
  {yev.walked[i].path : i \in {k \in 1..Len(yev.walked) : ~yev.walked[k].ok}}

\* the ancestors of a folder: what lies before each of its separators
AncestorsOf(folder) ==
  LET full == IF StartsWith(folder, <<SL>>) THEN folder ELSE <<SL>> \o folder
  IN  {ReplaceAll(SubSeq(full, 1, i), <<SL, SL>>, <<SL>>) :
         i \in {k \in 1..Len(full) : full[k] = SL}}

IsYamlFolder(dir) == MapSeq(dir, LowerCase) \in YAML_FOLDERS

\* the same server, the given folders holding no config folder
TreeWithout(tr, folders) ==
  [k \in DOMAIN tr |->
     IF k \in folders
     THEN [tr[k] EXCEPT !.dirs = SelectSeq(@, LAMBDA d : ~IsYamlFolder(d))]
     ELSE tr[k]]

\* the discovery of the same folder from the same cache, no request failing,
\* on the server where the failed ancestors hold no config folder
Unfailed ==
  findAllYamlConfigs([s \in Slugs |-> IF s = SlugOf(WebRoot) THEN yev.before ELSE EmptyMap],
                     Config(WebRoot), yev.folder, TreeWithout(tree, FailedAncestors), {})

\* C10: when the listing of an ancestor fails, discovery still lists every
\* ancestor and every candidate folder, and ends as it would have ended had
\* that ancestor held no config folder: with the same configs, and failing
\* only if it would have failed then.
C10_AncestorFailureSwallowed ==
  (yev.op = "yaml" /\ FailedAncestors # {}) =>
    /\ {yev.walked[i].path : i \in 1..Len(yev.walked)} = AncestorsOf(yev.folder)
    /\ yev.ok = ~Unfailed.thrown
    /\ yev.yamls = Unfailed.yamls
    /\ yev.configFolders = Unfailed.configFolders
    /\ yev.ok => \A i \in 1..Len(yev.configFolders) :
                   \E j \in 1..Len(yev.scanned) : yev.scanned[j].path = yev.configFolders[i]

\* a discovery that succeeded although the listing of an ancestor with a
\* config folder failed
C10_Witness ==
  /\ yev.op = "yaml" /\ yev.ok
  /\ \E a \in FailedAncestors :
       a \in DOMAIN tree /\ \E i \in 1..Len(tree[a].dirs) : IsYamlFolder(tree[a].dirs[i])
  /\ Len(yev.scanned) >= 2
  /\ DOMAIN yev.yamls.dashboards # {}

\* ------------------------------------------------------------------ claims: HTTP errors

\* a listing that failed because the server's answer was not 2xx: the fetch
\* adapter throws the response, the proxy adapter an Error with its status text
FailedOnStatus ==
  /\ ev.op = "fail"
  /\ DirectoryAdapter(Config(ev.root)) \in {"authenticated-proxy", "generic-http"}
  /\ \/ ev.cause.kind = "Response"
     \/ ev.cause.text = "Failed to fetch AWS directory: "

\* C11: a non-2xx answer to a directory listing of the generic-HTTP or the
\* authenticated-proxy backend reaches the caller as the response object
\* itself, not as a generic error value.
C11_Non2xxIsRawResponse ==
  FailedOnStatus => ev.error.kind = "Response"

\* ------------------------------------------------------------------ claims: cache keys

\* C13: every key of every partition of the cache ends with exactly one
\* separator, holds no two separators in a row and holds no `/./` segment.
C13_KeysAreNormalized ==
  \A s \in Slugs : \A key \in DOMAIN CACHE[s] :
    /\ EndsWith(key, <<SL>>)
    /\ ~Contains(key, <<SL, SL>>)
    /\ ~Contains(key, <<SL, DOT, SL>>)

\* ------------------------------------------------------------------ claims: concurrent listings

\* what the adapter of a root can answer for a path when it does not throw
AdapterResults(r, scaryPath) ==
  {result \in {CallAdapter(Config(r), WriteKey(scaryPath), env) : env \in Envs(Config(r))} :
     result.ok}

\* the same names, as many of them, with the same handles and body
Whole(e, raw) ==
  /\ Len(e.dirs) = Len(raw.dirs) /\ Len(e.files) = Len(raw.files)
  /\ {e.dirs[i] : i \in 1..Len(e.dirs)} = {raw.dirs[i] : i \in 1..Len(raw.dirs)}
  /\ {e.files[i] : i \in 1..Len(e.files)} = {raw.files[i] : i \in 1..Len(raw.files)}
  /\ e.handles = raw.handles /\ e.html = raw.html

SortedEntry(e) == IsSorted(e.dirs) /\ IsSorted(e.files)

\* C18: whatever the interleaving of the listing calls, every value in the
\* cache is sorted, a value enters the cache only as the whole sorted result
\* of the adapter call that has just finished, and a hit returns such a value.
C18_CacheHoldsWholeSortedEntries ==
  [][ /\ \A s \in Slugs : \A key \in DOMAIN CACHE'[s] :
           /\ SortedEntry(CACHE'[s][key])
           /\ (key \notin DOMAIN CACHE[s] \/ CACHE[s][key] # CACHE'[s][key]) =>
                 /\ ev'.op = "done" /\ SlugOf(ev'.root) = s /\ WriteKey(ev'.path) = key
                 /\ CACHE'[s][key] = ev'.entry
                 /\ \E raw \in AdapterResults(ev'.root, ev'.path) :
                      Whole(ev'.entry, raw.entry)
      /\ ev'.op = "hit" =>
            /\ SortedEntry(ev'.entry)
            /\ ev'.entry = CACHE[SlugOf(ev'.root)][LookupKey(ev'.path)] ]_vars

\* two calls missed for the same key: one has finished and cached a listing
\* that the adapter gave out of order, the other is still waiting
C18_Witness ==
  /\ fetches = 2
  /\ \E call \in BagToSet(inflight) :
       \E e \in CachedEntry(CACHE, SlugOf(call.root), call.path) :
         /\ Len(e.files) >= 2
         /\ \E raw \in AdapterResults(call.root, call.path) :
              Whole(e, raw.entry) /\ raw.entry.files # e.files

\* C19: a listing that was waiting for its adapter when clearCache ran does
\* not store its result when it finishes: the partition that was cleared is
\* still as the clear left it.
C19_ClearNotUndoneByInflight ==
  [][ (ev.op = "clear" /\ ev'.op = "done" /\ ev'.root = ev.root)
        => CACHE'[SlugOf(ev.root)] = CACHE[SlugOf(ev.root)] ]_vars

\* ------------------------------------------------------------------ claims: token exchange

\* C14: every exchange posts one request and attaches one listener; the first
\* message after the request ends it, resolving when the message carries both
\* accessToken and username and rejecting at once when it does not; the
\* listener is then detached and hears no second message; and an authenticated
\* request is issued only after the exchange resolved.
C14_ExchangeEndsOnFirstMessage ==
  \A i \in 1..MaxExchanges :
    LET c == auth.call[i]
    IN  /\ c.pc # "new" => c.posted = 1 /\ c.attached = 1
        /\ c.seen <= 1
        /\ c.seen = 1 =>
              /\ ~c.listening
              /\ IF c.first.accessToken /\ c.first.username
                 THEN c.pc \in {"resolved", "fetched"}
                 ELSE c.pc \in {"rejected", "thrown"}
        /\ c.requests > 0 => c.seen = 1 /\ c.first.accessToken /\ c.first.username

\* ------------------------------------------------------------------ claims: permission gate

\* C15: a call touches the handle (enumerates a folder, reads a file through
\* a child handle) only after its own permission check has resolved; a call
\* whose permission is not granted waits, when a store is configured, for the
\* user's decision and touches the handle only after a grant; without a store
\* it goes on without waiting.
C15_NoAccessBeforePermission ==
  [][ /\ gate'.touched > gate.touched => gate.check \in {"granted", "assumed"}
      /\ gate.pc = "prompt" =>
            /\ gate'.touched = gate.touched
            /\ gate'.check \in {"granted", "denied"}
      /\ (gate.pc = "queryPermission" /\ ~gate.store) => gate'.pc = "enumerate" ]_vars

\* ------------------------------------------------------------------ claims: eatDots

\* the positions of `..` in a list of segments
DotDots(parts) == {i \in 1..Len(parts) : parts[i] = <<DOT, DOT>>}

\* the leftmost `..` deleted together with the segment before it, when it has
\* one
DeleteLeftmost(parts) ==
  IF DotDots(parts) = {} THEN parts
  ELSE LET i == CHOOSE k \in DotDots(parts) : \A j \in DotDots(parts) : k <= j
       IN  IF i = 1 THEN parts
           ELSE [k \in 1..(Len(parts) - 2) |-> IF k < i - 1 THEN parts[k] ELSE parts[k + 2]]

\* n deletions in a row
RECURSIVE Deletions(_, _)
Deletions(parts, n) == IF n = 0 THEN parts ELSE Deletions(DeleteLeftmost(parts), n - 1)

\* C16: eatDots returns what is left when the leftmost `..` and the segment
\* before it are deleted again and again, for as long as the leftmost `..` is
\* not the first segment: it ends after at most one deletion per two
\* segments, a list without `..` and a list that starts with `..` come back
\* unchanged, and [a, b, .., c] comes back as [a, c].
C16_EatDotsFixpoint ==
  dots.pc = "done" =>
    /\ dots.out = Deletions(dots.parts, Len(dots.parts) \div 2)
    /\ DeleteLeftmost(dots.out) = dots.out
    /\ DotDots(dots.parts) = {} => dots.out = dots.parts
    /\ (dots.parts # <<>> /\ dots.parts[1] = <<DOT, DOT>>) => dots.out = dots.parts
    /\ dots.parts = <<(<<"a">>), <<"b">>, <<DOT, DOT>>, <<"c">>>>
          => dots.out = <<(<<"a">>), <<"c">>>>

\* a list that takes two deletions, reduced
C16_Witness ==
  /\ dots.pc = "done"
  /\ Cardinality(DotDots(dots.parts)) = 2
  /\ Len(dots.out) = Len(dots.parts) - 4

\* ------------------------------------------------------------------ claims: HTML listings

\* the dialects whose signature the body holds, a line that starts with `<a `
\* being the signature of nginx wherever it stands
DialectsPresent(lines) ==
  {d \in {"SimpleWebServer", "SVN", "NpxServe", "Apache24"} :
     \E i \in 1..Len(lines) :
       lines[i].mark = (CASE d = "SimpleWebServer" -> SigSimpleWebServer
                          [] d = "SVN" -> SigSVN
                          [] d = "NpxServe" -> SigNpxServe
                          [] OTHER -> SigApache24)}
    \cup {"NGINX" : i \in {k \in 1..Len(lines) : lines[k].link /\ lines[k].row.fmt = "a"}}

DialectOrder == <<"SimpleWebServer", "SVN", "NpxServe", "Apache24", "NGINX">>

\* C17: the parser applied to a body is the first in the order SimpleWebServer,
\* Subversion, Node static server, Apache 2.4, nginx whose signature is in the
\* body, a line that starts with `<a ` counting for nginx also when it is the
\* first line; a body without a signature gives the empty listing.
C17_FirstSignatureWins ==
  page.pc = "done" =>
    IF DialectsPresent(page.lines) = {}
    THEN page.dialect = "none" /\ page.entry = EmptyEntry
    ELSE \E i \in 1..Len(DialectOrder) :
           /\ DialectOrder[i] \in DialectsPresent(page.lines)
           /\ \A j \in 1..(i - 1) : DialectOrder[j] \notin DialectsPresent(page.lines)
           /\ page.dialect = DialectOrder[i]
           /\ page.entry = ParseAs(DialectOrder[i], BodyOfLines(page.lines))

\* C20: a local-handle listing that ends because the user denied the read
\* permission leaves the cache as it was, so that the folder is enumerated by
\* the next listing made once the permission is granted.
C20_DenialCachesNothing ==
  [][ (gate.pc = "prompt" /\ gate'.check = "denied") => CACHE' = CACHE ]_vars

\* ------------------------------------------------------------------ claims: URLs

\* the characters of [0-9a-zA-Z_-/:+] that paths here are made of
AllowedAtStart == {SL, "a"}

RECURSIVE DropLeadingDisallowed(_)
DropLeadingDisallowed(s) ==
  IF s # <<>> /\ Head(s) \notin AllowedAtStart THEN DropLeadingDisallowed(Tail(s)) ELSE s

\* every run of separators made one
RECURSIVE CollapseRuns(_)
CollapseRuns(s) ==
  IF Len(s) < 2 THEN s
  ELSE IF s[1] = SL /\ s[2] = SL THEN CollapseRuns(Tail(s))
  ELSE <<Head(s)>> \o CollapseRuns(Tail(s))

\* the URL the claim describes: the leading disallowed run removed, the rest
\* joined to the base, the runs of separators after the scheme collapsed, the
\* dot segments resolved
Sanitized(base, rawPath) ==
  UrlHref(SubSeq(base, 1, 4)
            \o CollapseRuns(SubSeq(base, 5, Len(base)) \o DropLeadingDisallowed(rawPath)))

\* C12: cleanURL returns the URL made by removing the leading run of
\* characters outside [0-9a-zA-Z_-/:+] from the path, joining the rest to the
\* base, collapsing every run of separators after the scheme and resolving the
\* dot segments.
C12_CleanUrlSanitizes ==
  url.pc = "done" => url.href = Sanitized(url.baseUrl, url.scaryPath)

\* ------------------------------------------------------------------ claims: XYT worker

\* the layer messages posted so far
LayersPosted == SelectSeq(xyt.posted, LAMBDA m : m.kind = "layer")

\* the rows of a sequence of layer messages, one after the other
RECURSIVE RowsOf(_)
RowsOf(layers) == IF layers = <<>> THEN <<>> ELSE Head(layers).rows \o RowsOf(Tail(layers))

\* the rows handed to appendResults so far, in arrival order
RowsHanded == [i \in 1..xyt.handed |-> i]

\* the positions of `finished` among the messages
FinishedAt == {i \in 1..Len(xyt.posted) : xyt.posted[i].kind = "finished"}

\* C21: between chunks the offset lies in 0..LAYER_SIZE-1 and the rows handed
\* to appendResults so far are, in arrival order, the rows of the layers
\* posted followed by the rows in the buffer, every posted layer having
\* exactly LAYER_SIZE rows; when the load is over every row handed to
\* appendResults is in exactly one layer message, in arrival order, each layer
\* full except a last, shorter, non-empty one when rows remain; and `finished`
\* is posted once, after every layer message.
C21_RowsConservedInOrder ==
  /\ xyt.pc \in {"parsing", "done"} => xyt.offset \in 0..(LAYER_SIZE - 1)
  /\ xyt.pc = "parsing" =>
       /\ RowsOf(LayersPosted) \o subarray(xyt.layerData, xyt.offset) = RowsHanded
       /\ \A i \in 1..Len(LayersPosted) : Len(LayersPosted[i].rows) = LAYER_SIZE
       /\ FinishedAt = {}
  /\ xyt.pc = "done" =>
       /\ RowsOf(LayersPosted) = RowsHanded
       /\ \A i \in 1..Len(LayersPosted) :
            /\ Len(LayersPosted[i].rows) \in 1..LAYER_SIZE
            /\ i < Len(LayersPosted) => Len(LayersPosted[i].rows) = LAYER_SIZE
       /\ FinishedAt = {Len(xyt.posted)}
  /\ xyt.pc \notin {"parsing", "done"} => LayersPosted = <<>> /\ FinishedAt = {}

====
